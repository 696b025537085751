------------------------------ MODULE FlockFile ------------------------------
(***************************************************************************)
(* A lock file as the operating system sees it: a path that names an inode *)
(* (or nothing), one open description per process, and flock(2), which     *)
(* excludes holders of the same INODE and knows nothing of the path.       *)
(*                                                                         *)
(* The program uses two of them, <state dir>/lock (lock.go) and            *)
(* <state dir>/supervisor.pid.lock (supervisor.go), both opened with       *)
(* O_CREATE and never truncated or replaced; `destroy` removes the state   *)
(* directory, which unlinks the path while descriptions may stay open.     *)
(***************************************************************************)
CONSTANTS
  Procs,    \* the processes that may open the file
  Inodes,   \* inode numbers; one that nothing refers to may be used again
  NoInode   \* "does not exist" for the path, "not open" for a process

VARIABLES
  path,     \* the inode the path names
  fd,       \* the inode each process has open
  held      \* the processes whose open description holds the lock

FlockTypeOK ==
  /\ path \in Inodes \cup {NoInode}
  /\ fd \in [Procs -> Inodes \cup {NoInode}]
  /\ held \subseteq Procs

FlockInit ==
  /\ path = NoInode
  /\ fd = [p \in Procs |-> NoInode]
  /\ held = {}

\* An inode no path and no open description keeps alive.
FreeInodes == Inodes \ ({path} \cup {fd[p] : p \in Procs})

\* open(path, O_RDWR|O_CREATE): the inode the path names, or a new one.
Open(p) ==
  /\ fd[p] = NoInode
  /\ \/ path # NoInode /\ path' = path
     \/ path = NoInode /\ path' \in FreeInodes
  /\ fd' = [fd EXCEPT ![p] = path']
  /\ UNCHANGED held

\* Another open description holds a lock on the inode p has open.
Busy(p) == \E q \in held : fd[q] = fd[p]

\* flock(fd, LOCK_EX), the moment it is granted.
Grant(p) ==
  /\ fd[p] # NoInode
  /\ ~Busy(p)
  /\ held' = held \cup {p}
  /\ UNCHANGED <<path, fd>>

\* close(fd), which lets the lock go; a process that dies closes too.
Close(p) ==
  /\ fd' = [fd EXCEPT ![p] = NoInode]
  /\ held' = held \ {p}
  /\ UNCHANGED path

\* The path is removed; open descriptions keep their inode and their lock.
Unlink ==
  /\ path' = NoInode
  /\ UNCHANGED <<fd, held>>

\* At most one process holds the lock.
Exclusive == \A p, q \in held : p = q
=============================================================================
