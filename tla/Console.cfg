CONSTANTS
    None = none
    MaxTyped = 6
    MaxBytes = 2
    MaxSwitches = 0
    Capacity = 2
SPECIFICATION ConsoleSpec
INVARIANTS
    
    
    
    KeysTrue
    EditorSound
    ShellSound
    LinkedRight
    
PROPERTIES
    EveryLineRead
CHECK_DEADLOCK FALSE
