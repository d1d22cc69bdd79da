------------------------- MODULE VirtualFileSystem -------------------------
(***************************************************************************)
(* Paths, directories and open files: filesystem/VirtualFileSystem.cpp,    *)
(* File.cpp and FileContext.cpp with the system calls on them, and what    *)
(* fork() and exit() do to the files of a process.                         *)
(*                                                                         *)
(* A path is a sequence of tokens: "/", ".", ".." and names.  A node of    *)
(* the tree of files is the sequence of the names that lead to it from the *)
(* root, <<>>.  Every process has one thread.  Directories are not empty   *)
(* and fit in a block of the file system.                                  *)
(***************************************************************************)
EXTENDS Integers, Sequences, FiniteSets, SequencesExt

CONSTANTS
    Procs, First,  \* processes, and the one that is there from the start
    Disk,          \* Disk[i]: the entries of directory i, of [inode, name]
    Type,          \* Type[i]: type of inode i
    Target,        \* Target[i]: path in the soft link i
    Size,          \* Size[i]: size of the regular file i
    Inputs,        \* the paths that the programs use
    MaxFiles,      \* bound: open files of a process
    MaxCalls,      \* bound: system calls
    Serial,        \* whether a process looks a path up only while no other does
    None

RootInode == 2
Nul == "nul"
Junk == "junk"  \* a name that runs on into the memory behind the target of a soft link

VARIABLES
    children,       \* vfs_node_t::children of the directories that were read
    write_contexts, \* m_open_write_contexts of the nodes; -1 is SIZE_MAX
    proc,           \* cwd and opened files of the processes
    thread,         \* the system call of each process
    inherited,      \* nodes with a context copied by fork() (history)
    calls, halted

vars == <<children, write_contexts, proc, thread, inherited, calls, halted>>

----------------------------------------------------------------------------
(* Ext2FileSystem::read_directory(): the entries in use.                   *)
read_directory(i) == SelectSeq(Disk[i], LAMBDA e : e.inode # 0)

(* The inode of a node.                                                    *)
Entry(i, name) == {e \in Range(read_directory(i)) : e.name = name}
Inode(node) ==
    FoldLeft(LAMBDA i, name : (CHOOSE e \in Entry(i, name) : TRUE).inode, RootInode, node)
is_type(node, type) == Type[Inode(node)] = type
Loaded(node) == node \in DOMAIN children

(* get_full_path(): a slash and a name for each node below the root.       *)
get_full_path(node) ==
    IF node = <<>> THEN <<"/">> ELSE FlattenSeq([i \in DOMAIN node |-> <<"/", node[i]>>])

(* LibK::string of a path; that of an empty one holds a zero, and no name  *)
(* is equal to it.                                                         *)
c_string(path) == IF path = <<>> THEN <<Nul>> ELSE path

(* prepare_path() and normalize_path().                                    *)
prepare_path(path, cwd) ==
    IF path = <<>> THEN <<"/">> ELSE IF path[1] # "/" THEN cwd \o path ELSE path
normalize_path(path) ==
    FlattenSeq([i \in DOMAIN path |->
        IF path[i] = "/" /\ i < Len(path) /\ path[i + 1] = "/" THEN <<>> ELSE <<path[i]>>])

Idle == [pc |-> "user", call |-> "none", path |-> <<>>, at |-> <<>>, asked |-> <<>>, linked |-> FALSE,
         from |-> <<>>, result |-> None]
NoFile == [node |-> None, offset |-> 0, listed |-> <<>>]

TypeOK ==
    /\ \A node \in DOMAIN children : is_type(node, "directory")
    /\ calls \in 0 .. MaxCalls /\ halted \in BOOLEAN
    /\ \A p \in Procs : thread[p].pc \in {"none", "user", "walk", "read", "fill", "done"}

Init ==
    /\ children = <<>> /\ write_contexts = <<>> /\ inherited = {}
    /\ proc = [p \in Procs |-> [cwd |-> <<"/">>, m_opened_files |-> <<>>]]
    /\ thread = [p \in Procs |-> [Idle EXCEPT !.pc = IF p = First THEN "user" ELSE "none"]]
    /\ calls = 0 /\ halted = FALSE

fileVars == <<write_contexts, proc, inherited>>
Running(p, at) == ~halted /\ thread[p].pc = at
Counted == calls < MaxCalls /\ calls' = calls + 1

----------------------------------------------------------------------------
(* find_by_path() for open(), chdir() and stat(); chdir() refuses an empty *)
(* path.                                                                   *)
lookup(p, call, path) ==
    /\ Running(p, "user") /\ Counted
    /\ call = "chdir" => path # <<>>
    /\ Serial => \A q \in Procs : thread[q].pc \in {"none", "user"}
    /\ thread' = [thread EXCEPT ![p] =
          [Idle EXCEPT !.pc = "walk", !.call = call, !.asked = path, !.from = proc[p].cwd,
                       !.path = normalize_path(prepare_path(c_string(path), proc[p].cwd))]]
    /\ UNCHANGED <<children, fileVars, halted>>

Found(p, result) == thread' = [thread EXCEPT ![p].pc = "done", ![p].result = result]

(* A name: the directory is read if it has no children yet; the child is   *)
(* entered, or the target of a soft link takes the place of the name, with *)
(* what is behind it in memory if that is no zero.                         *)
walk_name(p) ==
    LET th == thread[p]
        found == th.path[1] \in {e.name : e \in Range(children[th.at])}
        node == Append(th.at, th.path[1])
        target == Target[Inode(node)]
        overread == (IF Last(target) = "/" THEN target ELSE Front(target)) \o <<Junk>>
        Follow(prefix) == normalize_path(prepare_path(prefix \o Tail(th.path), Append(get_full_path(th.at), "/")))
    IN  \/ ~Loaded(th.at) /\ thread' = [thread EXCEPT ![p].pc = "read"]
        \/ Loaded(th.at) /\ ~found /\ Found(p, None)
        \/ /\ Loaded(th.at) /\ found /\ ~is_type(node, "link")
           /\ thread' = [thread EXCEPT ![p].at = node, ![p].path = Tail(@)]
        \/ /\ Loaded(th.at) /\ found /\ is_type(node, "link")
           /\ \E prefix \in {target, overread} :
                 thread' = [thread EXCEPT ![p].at = <<>>, ![p].path = Follow(prefix), ![p].linked = TRUE]

(* A defect: ".." leads out of the root.                                   *)
walk_up_out(p) ==
    LET th == thread[p] IN
    /\ th.path # <<>> /\ th.path[1] = ".."
    /\ IF th.at = <<>> THEN Found(p, None)
       ELSE thread' = [thread EXCEPT ![p].at = Front(@), ![p].path = Tail(@)]

walk_up(p) ==
    LET th == thread[p] IN
    /\ th.path # <<>> /\ th.path[1] = ".."
    /\ thread' = [thread EXCEPT ![p].at = IF @ = <<>> THEN @ ELSE Front(@), ![p].path = Tail(@)]

walk(p) ==
    LET th == thread[p] IN
    /\ Running(p, "walk")
    /\ \/ th.path = <<>> /\ Found(p, th.at)
       \/ /\ th.path # <<>> /\ th.path[1] = "/"
          /\ IF is_type(th.at, "directory") THEN thread' = [thread EXCEPT ![p].path = Tail(@)]
                                            ELSE Found(p, None)
       \/ th.path # <<>> /\ th.path[1] = "." /\ thread' = [thread EXCEPT ![p].path = Tail(@)]
       \/ walk_up(p)
       \/ th.path # <<>> /\ th.path[1] \notin {"/", ".", ".."} /\ walk_name(p)
    /\ UNCHANGED <<children, fileVars, calls, halted>>

(* VirtualFileSystem::read_directory() asserts that there are no children, *)
(* and makes them from what the file system reads.                         *)
begin_read(p) ==
    /\ Running(p, "read")
    /\ IF Loaded(thread[p].at) THEN halted' = TRUE /\ UNCHANGED thread
       ELSE thread' = [thread EXCEPT ![p].pc = "fill"] /\ UNCHANGED halted
    /\ UNCHANGED <<children, fileVars, calls>>

WithChildren(node) == [n \in DOMAIN children \cup {node} |-> IF n = node THEN read_directory(Inode(n)) ELSE children[n]]

fill(p) ==
    /\ Running(p, "fill")
    /\ children' = WithChildren(thread[p].at)
    /\ thread' = [thread EXCEPT ![p].pc = "walk"]
    /\ UNCHANGED <<fileVars, calls, halted>>

----------------------------------------------------------------------------
Writers(node) == IF node \in DOMAIN write_contexts THEN write_contexts[node] ELSE 0
AddWriters(node, n) ==
    write_contexts' = [m \in DOMAIN write_contexts \cup {node} |->
                          IF m = node THEN Writers(m) + n ELSE write_contexts[m]]
can_open_for_write(node) == node = <<>> \/ Writers(node) = 0
Files(p) == proc[p].m_opened_files

(* Process::add_file(): the lowest index that is free.                     *)
add_file(files, file) ==
    LET free == {fd \in DOMAIN files : files[fd].node = None} IN
    IF free = {} THEN Append(files, file)
    ELSE [files EXCEPT ![CHOOSE fd \in free : \A other \in free : fd <= other] = file]

(* The rest of open(): every file is opened to read and write.             *)
open(p) ==
    LET node == thread[p].result IN
    /\ thread[p].call = "open"
    /\ Cardinality({fd \in DOMAIN Files(p) : Files(p)[fd].node # None}) < MaxFiles
    /\ IF node = None \/ ~can_open_for_write(node)
       THEN UNCHANGED <<write_contexts, proc>>
       ELSE /\ AddWriters(node, 1)
            /\ proc' = [proc EXCEPT ![p].m_opened_files = add_file(@, [NoFile EXCEPT !.node = node])]

chdir(p) ==
    LET node == thread[p].result
        path == get_full_path(node) IN
    /\ thread[p].call = "chdir"
    /\ proc' = IF node = None \/ ~is_type(node, "directory") THEN proc
               ELSE [proc EXCEPT ![p].cwd = IF Last(path) = "/" THEN path ELSE Append(path, "/")]
    /\ UNCHANGED write_contexts

stat(p) == thread[p].call = "stat" /\ UNCHANGED <<write_contexts, proc>>

complete(p) ==
    /\ Running(p, "done")
    /\ open(p) \/ chdir(p) \/ stat(p)
    /\ thread' = [thread EXCEPT ![p] = [Idle EXCEPT !.call = thread[p].call, !.result = thread[p].result]]
    /\ UNCHANGED <<children, inherited, calls, halted>>

----------------------------------------------------------------------------
Opened(p) == {fd \in DOMAIN Files(p) : Files(p)[fd].node # None}

(* FileContext::read_directory(): the next count entries, under the lock   *)
(* of the file.  Other files have none.                                    *)
getdents(p, fd, count) ==
    LET file == Files(p)[fd]
        list == read_directory(Inode(file.node))
        last == IF file.offset + count < Len(list) THEN file.offset + count ELSE Len(list)
    IN  /\ Running(p, "user") /\ Counted /\ fd \in Opened(p)
        /\ is_type(file.node, "directory")
        /\ Serial => \A q \in Procs : thread[q].pc \in {"none", "user"}
        /\ children' = IF Loaded(file.node) THEN children ELSE WithChildren(file.node)
        /\ proc' = [proc EXCEPT ![p].m_opened_files[fd] =
              [@ EXCEPT !.offset = last, !.listed = @ \o SubSeq(list, file.offset + 1, last)]]
        /\ UNCHANGED <<write_contexts, thread, inherited, halted>>

(* read(): the offset moves by what there is to read in a regular file.    *)
read(p, fd, count) ==
    LET file == Files(p)[fd]
        left == Size[Inode(file.node)] - file.offset IN
    /\ Running(p, "user") /\ Counted /\ fd \in Opened(p)
    /\ is_type(file.node, "file")
    /\ proc' = [proc EXCEPT ![p].m_opened_files[fd].offset = @ + IF count < left THEN count ELSE left]
    /\ UNCHANGED <<children, write_contexts, thread, inherited, halted>>

(* close(): the index must be that of an open file.                        *)
close(p, fd) ==
    /\ Running(p, "user") /\ Counted /\ fd \in Opened(p)
    /\ AddWriters(Files(p)[fd].node, -1)
    /\ proc' = [proc EXCEPT ![p].m_opened_files[fd] = NoFile]
    /\ UNCHANGED <<children, thread, inherited, halted>>

(* fork() copies the contexts and counts none of them.                     *)
fork(p, q) ==
    /\ Running(p, "user") /\ thread[q].pc = "none" /\ Counted
    /\ proc' = [proc EXCEPT ![q] = proc[p]]
    /\ inherited' = inherited \cup {Files(p)[fd].node : fd \in Opened(p)}
    /\ thread' = [thread EXCEPT ![q] = Idle]
    /\ UNCHANGED <<children, write_contexts, halted>>

(* A defect: the files are dropped without being closed.                   *)
exit_dropping(p) ==
    /\ Running(p, "user") /\ p # First /\ Counted
    /\ proc' = [proc EXCEPT ![p].m_opened_files = <<>>]
    /\ thread' = [thread EXCEPT ![p] = [Idle EXCEPT !.pc = "none"]]
    /\ UNCHANGED <<children, write_contexts, inherited, halted>>

(* exit() closes every file.                                               *)
exit(p) ==
    LET Closed(node) == Cardinality({fd \in Opened(p) : Files(p)[fd].node = node}) IN
    /\ Running(p, "user") /\ p # First /\ Counted
    /\ write_contexts' = [n \in DOMAIN write_contexts |-> write_contexts[n] - Closed(n)]
    /\ proc' = [proc EXCEPT ![p].m_opened_files = <<>>]
    /\ thread' = [thread EXCEPT ![p] = [Idle EXCEPT !.pc = "none"]]
    /\ UNCHANGED <<children, inherited, halted>>

Step(p) ==
    \/ \E call \in {"open", "chdir", "stat"}, path \in Inputs : lookup(p, call, path)
    \/ walk(p) \/ begin_read(p) \/ fill(p) \/ complete(p)
    \/ \E fd \in Opened(p) : close(p, fd) \/ \E n \in 1 .. 2 : getdents(p, fd, n) \/ read(p, fd, n)
    \/ \E q \in Procs : fork(p, q)
    \/ exit(p)

Next == \E p \in Procs : Step(p)

Spec == Init /\ [][Next]_vars

----------------------------------------------------------------------------
(* What a path means: the components are followed one by one from the root *)
(* or the working directory, links with them; a path that ends in a slash  *)
(* is that of a directory, an empty one that of nothing.                   *)
RECURSIVE Resolve(_, _)
Resolve(names, node) ==
    IF names = <<>> THEN node
    ELSE IF ~is_type(node, "directory") THEN None
    ELSE IF names[1] = "." THEN Resolve(Tail(names), node)
    ELSE IF names[1] = ".." THEN Resolve(Tail(names), IF node = <<>> THEN node ELSE Front(node))
    ELSE IF Entry(Inode(node), names[1]) = {} THEN None
    ELSE LET child == Append(node, names[1]) IN
         IF ~is_type(child, "link") THEN Resolve(Tail(names), child)
         ELSE LET target == Target[Inode(child)]
              IN  Resolve((IF Last(target) = "/" THEN SelectSeq(target, LAMBDA x : x # "/") \o <<".">>
                                                 ELSE SelectSeq(target, LAMBDA x : x # "/")) \o Tail(names),
                          IF target[1] = "/" THEN <<>> ELSE node)
Meaning(path, cwd) ==
    LET whole == IF path # <<>> /\ path[1] # "/" THEN cwd \o path ELSE path
        names == SelectSeq(whole, LAMBDA x : x # "/")
    IN  IF path = <<>> THEN None
        ELSE Resolve(IF Last(whole) = "/" THEN Append(names, ".") ELSE names, <<>>)

(* A lookup finds the file that the path means and no other, whatever was  *)
(* looked up before and whatever the working directory has become; behind  *)
(* a soft link, whose target is read without an end, it may find none.     *)
(* And a working directory is the path of a directory, the one that        *)
(* chdir() looked up (find_by_path(), get_full_path(), chdir()).  As long  *)
(* as lookups do not overlap, read_directory() never finds the children    *)
(* that it asserts are missing.                                            *)
LookupTrue ==
    /\ ~halted
    /\ \A p \in Procs :
           LET th == thread[p] IN
           /\ th.pc = "done" => \/ th.result = Meaning(th.asked, th.from)
                                \/ th.linked /\ th.result = None
           /\ Head(proc[p].cwd) = "/" /\ Last(proc[p].cwd) = "/"
           /\ LET dir == Meaning(proc[p].cwd, <<>>) IN
              /\ dir # None /\ is_type(dir, "directory")
              /\ th.pc = "user" /\ th.call = "chdir" /\ th.result # None /\ is_type(th.result, "directory")
                   => dir = th.result

(* An open directory has listed each of its entries in use up to its       *)
(* offset once and in order, in whatever portions; and a file whose        *)
(* contexts no fork() has copied is counted as open for writing exactly    *)
(* while one process has it open, and one at most (FileContext.cpp,        *)
(* File::open(), close()).                                                 *)
OpenFilesSound ==
    LET Contexts(node) == {<<p, fd>> \in Procs \X (1 .. MaxFiles) : fd \in Opened(p) /\ Files(p)[fd].node = node} IN
    /\ \A p \in Procs : \A fd \in Opened(p) :
          LET file == Files(p)[fd] IN
          is_type(file.node, "directory") => file.listed = SubSeq(read_directory(Inode(file.node)), 1, file.offset)
    /\ \A node \in DOMAIN write_contexts \ inherited :
          /\ Cardinality(Contexts(node)) = Writers(node)
          /\ node # <<>> => Writers(node) <= 1
=============================================================================
