SPECIFICATION Spec
CONSTANTS
    Names = {n}
    HEAD = HEAD
    IndentAmount = 1
    MaxDepth = 7
    GetifaddrsFails = FALSE
    Platforms = {"linux", "freebsd", "darwin", "netbsd", "openbsd", "minix", "hurd", "unknown"}
INVARIANT Balanced
PROPERTY Disciplined
