SPECIFICATION Spec
CONSTANTS
    FileSystems <- MCFileSystems
    Wd <- MCWd
    Dirs <- MCDirs
    Requests <- MCRequests
    MaxUp = 6
    MaxLinks = 3
    MaxChanges = 1
INVARIANT SymlinksDoNotEscape
