------------------------------- MODULE Pickle -------------------------------
(***************************************************************************)
(* Saving the file system to a state file and loading it: pickle_verifs2   *)
(* and load_verifs2 in the daemon, the programs pkl and load that ask for  *)
(* them, the file /tmp/pickle.cfg through which these pass the path, and   *)
(* the state files.  The body of a state file is written piece by piece,   *)
(* the header with its length and SHA-256 last; any write may fail or come *)
(* out short, and the daemon may stop between two of them and be started   *)
(* again with an empty file system.  The hash is modelled as injective.    *)
(***************************************************************************)
EXTENDS Integers, Sequences

CONSTANTS
  Pkl, Load,    \* the processes that run pkl and load
  Path, PathOf, \* the paths of state files, and the one each process is given
  FsState,      \* bound: the states of the file system that requests reach
  Fresh,        \* the state FuseInit makes
  None,         \* an empty slot, no file, no path, no header
  WritesFail,   \* bound: whether writes to state files fail
  MemoryFails,  \* bound: whether load runs out of memory
  MaxStops      \* bound: how often the daemon stops

\* A state of the file system: the counts of statvfs, the table, in which None
\* is an empty slot, the queue of slots to reuse, and the pool of checkpoints,
\* each with such a table.
IsSequence(q) == q \in Seq({q[i] : i \in DOMAIN q})
IsCheckpoint(c) ==
  /\ c = [key |-> c.key, stat |-> c.stat, inodes |-> c.inodes, deleted |-> c.deleted]
  /\ IsSequence(c.inodes)
IsState(s) ==
  /\ s = [stat |-> s.stat, inodes |-> s.inodes, deleted |-> s.deleted, pool |-> s.pool]
  /\ IsSequence(s.inodes) /\ IsSequence(s.pool)
  /\ \A i \in DOMAIN s.pool : IsCheckpoint(s.pool[i])

ASSUME PickleAssumption ==
  /\ PathOf \in [Pkl \cup Load -> Path] /\ None \notin Path
  /\ \A s \in FsState \cup {Fresh} : IsState(s)
  /\ WritesFail \in BOOLEAN /\ MemoryFails \in BOOLEAN /\ MaxStops \in Nat

Client == Pkl \cup Load

VARIABLES
  fs,       \* the daemon's file system: stat, inodes, deleted and pool
  daemon,   \* what the daemon is doing
  cfg,      \* the contents of /tmp/pickle.cfg
  disk,     \* the state files: header and body
  client,   \* how far every process is
  stops,    \* counts up to MaxStops
  saved,    \* history: for every path the state that pickling to it began with
  loaded    \* history: while fs is as load left it, how much and of what state

vars == <<fs, daemon, cfg, disk, client, stops, saved, loaded>>

-----------------------------------------------------------------------------
(* The body: what pickle_file_system writes and load_file_system reads *)

InodeChunks(inodes) == [i \in DOMAIN inodes |-> <<"inode", inodes[i]>>]

\* A checkpoint in the pool is written in the same way, under its key.
PoolChunks(pool) == [i \in DOMAIN pool |-> <<"state", pool[i]>>]

\* The numbers of inodes and of checkpoints come before them.
pickle_file_system(s) ==
  <<<<"statvfs", s.stat>>, <<"num_inodes", Len(s.inodes)>>>> \o InodeChunks(s.inodes)
    \o <<<<"deleted", s.deleted>>, <<"num_state_pool", Len(s.pool)>>>> \o PoolChunks(s.pool)

\* The n pieces after the first at pieces.
Read(body, at, n) == [i \in 1..n |-> body[at + i][2]]

\* The table that is read grows with every inode; slots without one are
\* skipped, so that it has no empty slots.
Present(inodes) ==
  LET table[i \in 0..Len(inodes)] ==
        IF i = 0 THEN <<>>
        ELSE IF inodes[i] = None THEN table[i - 1]
        ELSE Append(table[i - 1], inodes[i])
  IN  table[Len(inodes)]

\* A checkpoint, whose table is read in the same way.
LoadState(state) == [state EXCEPT !.inodes = Present(@)]

\* Fault: the queue of free slots is not read back.
load_file_systemNoQueue(body) ==
  LET num_inodes == body[2][2]
      num_state_pool == body[num_inodes + 4][2]
      pool == Read(body, num_inodes + 4, num_state_pool)
  IN  [stat |-> body[1][2], inodes |-> Present(Read(body, 2, num_inodes)),
       deleted |-> <<>>, pool |-> [i \in DOMAIN pool |-> LoadState(pool[i])]]
load_file_system(body) ==
  LET num_inodes == body[2][2]
      num_state_pool == body[num_inodes + 4][2]
      pool == Read(body, num_inodes + 4, num_state_pool)
  IN  [stat |-> body[1][2], inodes |-> Present(Read(body, 2, num_inodes)),
       deleted |-> body[num_inodes + 3][2], pool |-> [i \in DOMAIN pool |-> LoadState(pool[i])]]

\* When memory runs out for inode n it is in the table without its contents,
\* and the rest stays empty; when it does in a checkpoint, that and the ones
\* after it are missing.
LoadCutShort(body) ==
  LET whole == load_file_system(body)
  IN  {[whole EXCEPT !.inodes = Append(SubSeq(@, 1, n - 1), "unread"),
                     !.deleted = <<>>, !.pool = <<>>] : n \in DOMAIN whole.inodes}
      \cup {[whole EXCEPT !.pool = SubSeq(@, 1, n - 1)] : n \in DOMAIN whole.pool}

-----------------------------------------------------------------------------
Idle == [op |-> "idle"]
NotLoaded == [much |-> "no"]

Init ==
  /\ fs = Fresh /\ daemon = Idle /\ cfg = None
  /\ disk = [p \in Path |-> None]
  /\ client = [c \in Client |-> "start"]
  /\ stops = 0 /\ saved = [p \in Path |-> None] /\ loaded = NotLoaded

\* Requests of other clients change the file system; the daemon takes the next
\* request when it has answered the last.
OtherRequests ==
  /\ daemon = Idle /\ \E s \in FsState : fs' = s
  /\ loaded' = NotLoaded
  /\ UNCHANGED <<daemon, cfg, disk, client, stops, saved>>

-----------------------------------------------------------------------------
(* pkl and load *)

OpenCfg(c) ==
  /\ client[c] = "start" /\ cfg' = None
  /\ client' = [client EXCEPT ![c] = "opened"]
  /\ UNCHANGED <<fs, daemon, disk, stops, saved, loaded>>

WriteCfg(c) ==
  /\ client[c] = "opened" /\ cfg' = PathOf[c]
  /\ client' = [client EXCEPT ![c] = "asks"]
  /\ UNCHANGED <<fs, daemon, disk, stops, saved, loaded>>

\* The reply to the ioctl of c.
Answer(c, ok) ==
  /\ daemon' = Idle
  /\ client' = [client EXCEPT ![c] = IF ok THEN "ok" ELSE "failed"]

\* The process is run again.
RunAgain(c) ==
  /\ client[c] \in {"ok", "failed"}
  /\ client' = [client EXCEPT ![c] = "start"]
  /\ UNCHANGED <<fs, daemon, cfg, disk, stops, saved, loaded>>

-----------------------------------------------------------------------------
(* pickle_verifs2 *)

\* The path is what the config file has by now.
StartPickle(c) ==
  /\ c \in Pkl /\ client[c] = "asks" /\ daemon = Idle
  /\ \/ Answer(c, FALSE) /\ UNCHANGED <<disk, saved>>
     \/ /\ cfg # None
        /\ disk' = [disk EXCEPT ![cfg] = [header |-> None, body |-> <<>>]]
        /\ daemon' = [op |-> "pickle", client |-> c, path |-> cfg, pos |-> 0,
                      hash |-> <<>>, todo |-> pickle_file_system(fs)]
        /\ saved' = [saved EXCEPT ![cfg] = fs]
        /\ UNCHANGED client
  /\ UNCHANGED <<fs, cfg, stops, loaded>>

\* A short write sets no errno: pickle_file_system moves the cursor back to
\* the start of the body and returns -0, a success.
ShortWrite ==
  /\ disk' = [disk EXCEPT ![daemon.path].body = Append(@, <<"part">>)]
  /\ daemon' = [daemon EXCEPT !.todo = <<>>, !.pos = 0]

\* write_and_hash.  When write fails, -1 as a size_t is larger than the count:
\* the piece is hashed and counted as written.
WriteChunk ==
  /\ daemon.op = "pickle" /\ daemon.todo # <<>>
  /\ \/ /\ disk' = [disk EXCEPT ![daemon.path].body = Append(@, Head(daemon.todo))]
        /\ daemon' = [daemon EXCEPT !.todo = Tail(@), !.pos = @ + 1,
                                    !.hash = Append(@, Head(daemon.todo))]
     \/ /\ WritesFail
        /\ daemon' = [daemon EXCEPT !.todo = Tail(@), !.hash = Append(@, Head(daemon.todo))]
        /\ UNCHANGED disk
     \/ WritesFail /\ ShortWrite
  /\ UNCHANGED <<fs, cfg, client, stops, saved, loaded>>

\* Memory for the pickled inode runs out: no header is written.
PickleNoMemory ==
  /\ MemoryFails /\ daemon.op = "pickle" /\ daemon.todo # <<>>
  /\ Head(daemon.todo)[1] \in {"inode", "state"}
  /\ Answer(daemon.client, FALSE)
  /\ UNCHANGED <<fs, cfg, disk, stops, saved, loaded>>

\* The header says how far the cursor is and what was hashed.  A short write
\* of it is taken for a success.
WriteHeader ==
  /\ daemon.op = "pickle" /\ daemon.todo = <<>>
  /\ \/ /\ disk' = [disk EXCEPT ![daemon.path].header =
                      [fsize |-> daemon.pos, hash |-> daemon.hash]]
        /\ Answer(daemon.client, TRUE)
     \/ WritesFail /\ Answer(daemon.client, TRUE) /\ UNCHANGED disk
     \/ WritesFail /\ Answer(daemon.client, FALSE) /\ UNCHANGED disk
  /\ UNCHANGED <<fs, cfg, stops, saved, loaded>>

-----------------------------------------------------------------------------
(* load_verifs2 *)

\* Fault: only the size is verified.
verify_state_fileSize(file) ==
  file # None /\ file.header # None /\ file.header.fsize = Len(file.body)
\* verify_file_size and verify_file_integrity.
verify_state_file(file) ==
  /\ file # None /\ file.header # None
  /\ file.header.fsize = Len(file.body)
  /\ file.header.hash = file.body

\* The state file may not be there, not verify or not get memory.  What
\* load_file_system returns is not looked at.
LoadRequest(c) ==
  /\ c \in Load /\ client[c] = "asks" /\ daemon = Idle
  /\ \/ /\ MemoryFails \/ ~(cfg # None /\ verify_state_file(disk[cfg]))
        /\ Answer(c, FALSE) /\ UNCHANGED <<fs, loaded>>
     \/ /\ cfg # None /\ verify_state_file(disk[cfg])
        /\ \/ fs' = load_file_system(disk[cfg].body) /\ loaded' = [much |-> "whole", of |-> saved[cfg]]
           \/ /\ MemoryFails /\ \E cut \in LoadCutShort(disk[cfg].body) : fs' = cut
              /\ loaded' = [much |-> "part", of |-> saved[cfg]]
        /\ Answer(c, TRUE)
  /\ UNCHANGED <<cfg, disk, stops, saved>>

-----------------------------------------------------------------------------
\* The daemon stops, with its clients waiting or not, and is started again.
Stop ==
  /\ stops < MaxStops /\ stops' = stops + 1
  /\ fs' = Fresh /\ daemon' = Idle /\ loaded' = NotLoaded
  /\ client' = IF daemon = Idle THEN client ELSE [client EXCEPT ![daemon.client] = "failed"]
  /\ UNCHANGED <<cfg, disk, saved>>

Next ==
  \/ OtherRequests
  \/ \E c \in Client :
       OpenCfg(c) \/ WriteCfg(c) \/ RunAgain(c) \/ StartPickle(c) \/ LoadRequest(c)
  \/ WriteChunk \/ PickleNoMemory \/ WriteHeader
  \/ Stop

Spec == Init /\ [][Next]_vars

-----------------------------------------------------------------------------
(* Properties *)

\* The state without its empty slots.
Compacted(s) ==
  [s EXCEPT !.inodes = Present(@), !.pool = [i \in DOMAIN @ |-> LoadState(@[i])]]

\* Whatever load_verifs2 accepts and loads completely is the state that the
\* last pickling to that path began with, but for its empty slots: no failed
\* or short write, no stop in the middle and no mix of two files gets past the
\* header.
LoadedWasSaved == loaded.much = "whole" => fs = Compacted(loaded.of)

\* A state file that verifies has all pieces of that state, in order, so that
\* load_file_system, which checks no bounds, reads no further than its end.
VerifiedIsWhole ==
  \A p \in Path : verify_state_file(disk[p]) =>
    disk[p].body = pickle_file_system(saved[p])

\* load_file_system: "Load the file system from pickled data".  The inode
\* table that comes back is the one that was saved.
LoadGivesBackTable == loaded.much = "whole" => fs = loaded.of

\* pickle_file_system: "if pickling fails, move the cursor here".  A client
\* that is told of a success has a state file that verifies.
SuccessIsSaved ==
  \A c \in Pkl : client[c] = "ok" => verify_state_file(disk[PathOf[c]])

\* cr.h: "PICKLE and LOAD should receive a parameter [...] which contains the
\* path to the output / input file".  The daemon writes the file of the
\* client that asked.
OwnPathIsWritten ==
  daemon.op = "pickle" => daemon.path = PathOf[daemon.client]

=============================================================================
