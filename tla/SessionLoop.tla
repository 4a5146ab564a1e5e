----------------------------- MODULE SessionLoop -----------------------------
(***************************************************************************)
(* The session loop with its clients: processes whose system calls the     *)
(* kernel turns into requests, the queue of requests, the one thread that  *)
(* answers them, and the kernel's dentry cache, which restore invalidates  *)
(* entry by entry before it puts the stored state in place.  The kernel    *)
(* holds a directory's lock from before a request about one of its entries *)
(* until the reply has been entered in the dentry cache, and needs it to   *)
(* invalidate an entry; the thread waits for that inside restore.          *)
(***************************************************************************)
EXTENDS Integers, Sequences, FiniteSets

CONSTANTS
  Proc,      \* processes
  Dir, Name, \* directories and the names in them
  Ino,       \* bound: inode numbers
  Key,       \* keys of checkpoints
  None       \* no entry, no state

\* Inode numbers begin with 1: no entry has the number that says there is none.
ASSUME NoneIsNoInode == None \notin Ino

VARIABLES
  m_children,  \* the daemon's entries of every directory
  state_pool,  \* the stored states
  restoring,   \* the restore in progress: its request, key and entries to invalidate
  queue,       \* requests the daemon has not read, oldest first
  proc,        \* the system call of every process
  dcache       \* the entries the kernel has cached

vars == <<m_children, state_pool, restoring, queue, proc, dcache>>

Entries == [Dir -> [Name -> Ino \cup {None}]]
NoEntries == [d \in Dir |-> [n \in Name |-> None]]
Present(entries) == {at \in Dir \X Name : entries[at[1]][at[2]] # None}

Idle == [step |-> "idle"]

\* Calls on an entry, and ioctls.
EntryOps == [op : {"lookup", "create", "unlink"}, dir : Dir, name : Name]
Ioctls == [op : {"checkpoint", "restore"}, key : Key]

Init ==
  /\ m_children = NoEntries /\ dcache = NoEntries
  /\ state_pool = [k \in Key |-> None]
  /\ restoring = None /\ queue = <<>>
  /\ proc = [p \in Proc |-> Idle]

-----------------------------------------------------------------------------
(* The kernel *)

\* Processes inside a call that holds the lock of directory d.  A lookup
\* shares it with other lookups.
Holders(d) == {p \in Proc : proc[p] # Idle /\ proc[p].call.op \in {"lookup", "create", "unlink"}
                                           /\ proc[p].call.dir = d}
Excluders(d) == {p \in Holders(d) : proc[p].call.op # "lookup"}

\* A lookup that the cache answers sends no request, nor does creating what
\* is cached or unlinking what is not.
NeedsRequest(call) ==
  (call.op = "unlink") <=> (dcache[call.dir][call.name] # None)

Send(p, call) ==
  /\ proc[p] = Idle
  /\ call \in EntryOps =>
       /\ IF call.op = "lookup" THEN Excluders(call.dir) = {} ELSE Holders(call.dir) = {}
       /\ NeedsRequest(call)
  /\ proc' = [proc EXCEPT ![p] = [step |-> "waits", call |-> call]]
  /\ queue' = Append(queue, p)
  /\ UNCHANGED <<m_children, state_pool, restoring, dcache>>

\* The process wakes up, enters the reply in the cache and unlocks.
Apply(p) ==
  /\ proc[p].step = "answered"
  /\ LET call == proc[p].call
     IN  dcache' = IF call \in EntryOps /\ proc[p].ok
                   THEN [dcache EXCEPT ![call.dir][call.name] = proc[p].ino]
                   ELSE dcache
  /\ proc' = [proc EXCEPT ![p] = Idle]
  /\ UNCHANGED <<m_children, state_pool, restoring, queue>>

\* entry_timeout, or memory is short.
Expire(d, n) ==
  /\ dcache[d][n] # None /\ Holders(d) = {}
  /\ dcache' = [dcache EXCEPT ![d][n] = None]
  /\ UNCHANGED <<m_children, state_pool, restoring, queue, proc>>

-----------------------------------------------------------------------------
(* The daemon *)

Reply(p, ok, ino) ==
  proc' = [proc EXCEPT ![p] = [step |-> "answered", call |-> @.call, ok |-> ok, ino |-> ino]]

\* The loop reads the oldest request, after it has answered the last one.
Receives(p, op) ==
  /\ restoring = None /\ queue # <<>> /\ Head(queue) = p /\ proc[p].call.op = op
  /\ queue' = Tail(queue)

FuseLookup(p) ==
  /\ Receives(p, "lookup")
  /\ LET ino == m_children[proc[p].call.dir][proc[p].call.name]
     IN  Reply(p, ino # None, ino)
  /\ UNCHANGED <<m_children, state_pool, restoring, dcache>>

FuseCreate(p) ==
  /\ Receives(p, "create")
  /\ LET d == proc[p].call.dir
         n == proc[p].call.name
     IN  \/ m_children[d][n] # None /\ Reply(p, FALSE, None) /\ UNCHANGED m_children
         \/ /\ m_children[d][n] = None
            /\ \E ino \in Ino :
                 /\ \A at \in Dir \X Name : m_children[at[1]][at[2]] # ino
                 /\ m_children' = [m_children EXCEPT ![d][n] = ino]
                 /\ Reply(p, TRUE, ino)
         \/ /\ m_children[d][n] = None
            /\ Reply(p, FALSE, None) /\ UNCHANGED m_children
  /\ UNCHANGED <<state_pool, restoring, dcache>>

FuseUnlink(p) ==
  /\ Receives(p, "unlink")
  /\ LET d == proc[p].call.dir
         n == proc[p].call.name
     IN  /\ m_children' = [m_children EXCEPT ![d][n] = None]
         /\ Reply(p, m_children[d][n] # None, None)
  /\ UNCHANGED <<state_pool, restoring, dcache>>

checkpoint(p) ==
  /\ Receives(p, "checkpoint")
  /\ LET k == proc[p].call.key
     IN  /\ state_pool' = [state_pool EXCEPT ![k] = IF @ = None THEN m_children ELSE @]
         /\ Reply(p, state_pool[k] = None, None)
  /\ UNCHANGED <<m_children, restoring, dcache>>

\* Fault: the entries of the stored state are invalidated.
StaleEntriesOfStored(k) == Present(state_pool[k])
\* The entries that invalidate_kernel_states goes through: those there are
\* before the restore.
StaleEntries(k) == Present(m_children)

\* Fault: a key that is not there leaves the request without a reply.
RestoreMissingNoReply(p) == UNCHANGED proc
RestoreMissing(p) == Reply(p, FALSE, None)

restore(p) ==
  /\ Receives(p, "restore")
  /\ LET k == proc[p].call.key
     IN  \/ state_pool[k] = None /\ RestoreMissing(p) /\ UNCHANGED restoring
         \/ /\ state_pool[k] # None
            /\ restoring' = [proc |-> p, key |-> k, stale |-> StaleEntries(k)]
            /\ UNCHANGED proc
  /\ UNCHANGED <<m_children, state_pool, dcache>>

\* fuse_lowlevel_notify_inval_entry returns when the kernel has had the lock
\* of the directory.
invalidate_kernel_states ==
  /\ restoring # None
  /\ \E at \in restoring.stale :
       /\ Holders(at[1]) = {}
       /\ dcache' = [dcache EXCEPT ![at[1]][at[2]] = None]
       /\ restoring' = [restoring EXCEPT !.stale = @ \ {at}]
  /\ UNCHANGED <<m_children, state_pool, queue, proc>>

RestoreState ==
  /\ restoring # None /\ restoring.stale = {}
  /\ m_children' = state_pool[restoring.key]
  /\ state_pool' = [state_pool EXCEPT ![restoring.key] = None]
  /\ Reply(restoring.proc, TRUE, None)
  /\ restoring' = None
  /\ UNCHANGED <<queue, dcache>>

Answer(p) == FuseLookup(p) \/ FuseCreate(p) \/ FuseUnlink(p) \/ checkpoint(p) \/ restore(p)
Daemon == (\E p \in Proc : Answer(p)) \/ invalidate_kernel_states \/ RestoreState

-----------------------------------------------------------------------------
Next ==
  \/ \E p \in Proc : (\E call \in EntryOps \cup Ioctls : Send(p, call)) \/ Apply(p)
  \/ \E d \in Dir, n \in Name : Expire(d, n)
  \/ \E p \in Proc :
       FuseLookup(p) \/ FuseCreate(p) \/ FuseUnlink(p) \/ checkpoint(p) \/ restore(p)
  \/ invalidate_kernel_states
  \/ RestoreState

Spec == Init /\ [][Next]_vars

\* fuse_session_loop goes on while it can, and a process that has its reply
\* is scheduled at some time.  Nothing makes processes ask.
FairSpec == Spec /\ WF_vars(Daemon) /\ \A p \in Proc : WF_vars(Apply(p))

-----------------------------------------------------------------------------
(* Properties *)

\* An entry the kernel has cached is the daemon's entry, but for a directory
\* in which a call is under way: the invalidations before a restore leave
\* nothing of the old state in the cache, although replies given before it are
\* entered while it runs.
CachedEntriesAgree ==
  \A d \in Dir, n \in Name :
    (Holders(d) = {} /\ dcache[d][n] # None) => dcache[d][n] = m_children[d][n]

\* invalidate_kernel_states: "Invalidate potential d-cache".  Restore comes
\* through the invalidations, and so every call returns.
CallsReturn == \A p \in Proc : proc[p] # Idle ~> proc[p] = Idle

\* A restore that has to wait for the lock of a directory whose holder waits
\* for the daemon.
RestoreWaits ==
  /\ restoring # None
  /\ \E at \in restoring.stale : \E p \in Holders(at[1]) : proc[p].step = "waits"

\* The session loop answers every request, and every call returns, the ioctls
\* included, unless a restore comes to wait in invalidate_kernel_states for a
\* call that waits for it.
CallsReturnOrRestoreWaits == \A p \in Proc : proc[p] # Idle ~> proc[p] = Idle \/ RestoreWaits

=============================================================================
