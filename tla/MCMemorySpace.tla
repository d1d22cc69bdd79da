--------------------------- MODULE MCMemorySpace ---------------------------
(* The order of the holes by size is that of the real addresses: page 0,   *)
(* then the ones above the stack, above the loader, above the program.     *)
EXTENDS MemorySpace

ImageLarge == <<<<2, 1>>, <<9, 1>>, <<10, 2>>, <<16, 1>>, <<21, 1>>>>
KernelStackLarge == <<25, 1>>
=============================================================================
