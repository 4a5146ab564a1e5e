-------------------------- MODULE SessionLoopProofs --------------------------
(***************************************************************************)
(* Proof that the dentry cache agrees with the daemon's entries, for any   *)
(* number of processes, directories, names and keys.  The property alone   *)
(* is not inductive: it says nothing of a directory while a call on it is  *)
(* under way, nor of the state a restore is about to replace.              *)
(***************************************************************************)
EXTENDS SessionLoop, TLAPS

\* The calls a process makes, and what it and the restores under way hold.
Calls == EntryOps \cup Ioctls
Waiting == [step : {"waits"}, call : Calls]
Answered == [step : {"answered"}, call : Calls, ok : BOOLEAN, ino : Ino \cup {None}]
Restores == [proc : Proc, key : Key, stale : SUBSET (Dir \X Name)]

\* The values the variables have.
TypeOK ==
  /\ m_children \in Entries /\ dcache \in Entries
  /\ state_pool \in [Key -> Entries \cup {None}]
  /\ restoring \in Restores \cup {None}
  /\ queue \in Seq(Proc)
  /\ proc \in [Proc -> {Idle} \cup Waiting \cup Answered]

\* The process p is in the call op on entry n of directory d, or it has had
\* its reply to such a call, and the reply is not an error.
In(p, op, d, n) ==
  proc[p] # Idle /\ proc[p].call.op = op /\ proc[p].call.dir = d /\ proc[p].call.name = n
\* Process p has a successful answer to its call.
Done(p, op, d, n) == In(p, op, d, n) /\ proc[p].step = "answered" /\ proc[p].ok

\* The requests in the queue are those of different waiting processes, and
\* the request of a restore in progress is no longer one of them.
QueueInv ==
  /\ \A i \in 1..Len(queue) : proc[queue[i]].step = "waits"
  /\ \A i, j \in 1..Len(queue) : queue[i] = queue[j] => i = j
  /\ restoring # None =>
       /\ proc[restoring.proc].step = "waits" /\ proc[restoring.proc].call.op = "restore"
       /\ state_pool[restoring.key] # None
       /\ \A i \in 1..Len(queue) : queue[i] # restoring.proc

\* The kernel's lock of a directory: two calls that hold it are lookups.
LockInv ==
  \A d \in Dir : \A p, q \in Holders(d) : p # q => proc[p].call.op = "lookup"

\* A reply the process has not entered in the cache names the entry there is.
ReplyInv ==
  \A p \in Proc, d \in Dir, n \in Name :
    Done(p, "lookup", d, n) \/ Done(p, "create", d, n) =>
      proc[p].ino = m_children[d][n] /\ m_children[d][n] # None

\* A reply to an unlink takes the entry out of the cache.
UnlinkInv ==
  \A p \in Proc, d \in Dir, n \in Name : Done(p, "unlink", d, n) => proc[p].ino = None

\* What is cached is there, or its unlink is about to be entered.
CacheInv ==
  \A d \in Dir, n \in Name :
    dcache[d][n] # None => \/ dcache[d][n] = m_children[d][n]
                           \/ \E p \in Proc : Done(p, "unlink", d, n)

\* While a restore invalidates: an entry it is done with is not cached, and
\* no reply that would enter it again is on its way.
RestoreInv ==
  restoring # None =>
    \A d \in Dir, n \in Name :
      m_children[d][n] # None =>
        \/ <<d, n>> \in restoring.stale
        \/ /\ dcache[d][n] = None
           /\ \A p \in Proc : ~Done(p, "lookup", d, n) /\ ~Done(p, "create", d, n)

\* The inductive invariant.
CacheAgreement ==
  TypeOK /\ QueueInv /\ LockInv /\ ReplyInv /\ UnlinkInv /\ CacheInv /\ RestoreInv
-----------------------------------------------------------------------------
(* What a process is doing *)

\* A process is idle, waits for its reply or has it.
LEMMA ProcCases ==
  ASSUME TypeOK, NEW p \in Proc
  PROVE  \/ proc[p] = Idle /\ proc[p].step = "idle"
         \/ proc[p] # Idle /\ proc[p] \in Waiting /\ proc[p].step = "waits"
         \/ proc[p] # Idle /\ proc[p] \in Answered /\ proc[p].step = "answered"
  BY DEF TypeOK, Idle, Waiting, Answered

\* A call is one on an entry, or an ioctl.
LEMMA CallCases ==
  ASSUME NEW call \in Calls
  PROVE  /\ call \in EntryOps <=> call.op \in {"lookup", "create", "unlink"}
         /\ call \in EntryOps => call.dir \in Dir /\ call.name \in Name
         /\ call \notin EntryOps => call.op \in {"checkpoint", "restore"} /\ call.key \in Key
  BY DEF Calls, EntryOps, Ioctls

\* The process that Send puts in the queue.
LEMMA SendProc ==
  ASSUME TypeOK, NEW p \in Proc, NEW call \in Calls, Send(p, call)
  PROVE  /\ proc[p] = Idle
         /\ proc' \in [Proc -> {Idle} \cup Waiting \cup Answered]
         /\ proc'[p] # Idle /\ proc'[p].step = "waits" /\ proc'[p].call = call
         /\ \A q \in Proc : q # p => proc'[q] = proc[q]
  BY DEF Send, TypeOK, Waiting, Idle

\* A process that gets a reply was waiting, and its call stays what it is.
LEMMA ReplyProc ==
  ASSUME TypeOK, NEW p \in Proc, proc[p].step = "waits",
         NEW ok \in BOOLEAN, NEW ino \in Ino \cup {None}, Reply(p, ok, ino)
  PROVE  /\ proc' \in [Proc -> {Idle} \cup Waiting \cup Answered]
         /\ proc[p] # Idle /\ proc'[p] # Idle
         /\ proc'[p].step = "answered" /\ proc'[p].call = proc[p].call
         /\ proc'[p].ok = ok /\ proc'[p].ino = ino
         /\ \A q \in Proc : q # p => proc'[q] = proc[q]
<1>1. proc[p] # Idle /\ proc[p] \in Waiting
  BY ProcCases
<1> QED
  BY <1>1 DEF Reply, TypeOK, Waiting, Answered, Idle

\* A process that enters its reply was answered, and is idle afterwards.
LEMMA ApplyProc ==
  ASSUME TypeOK, NEW p \in Proc, Apply(p)
  PROVE  /\ proc[p] # Idle /\ proc[p] \in Answered
         /\ proc' \in [Proc -> {Idle} \cup Waiting \cup Answered]
         /\ proc'[p] = Idle
         /\ \A q \in Proc : q # p => proc'[q] = proc[q]
<1>1. proc[p] # Idle /\ proc[p] \in Answered
  BY ProcCases DEF Apply
<1> QED
  BY <1>1 DEF Apply, TypeOK

-----------------------------------------------------------------------------
(* The queue *)

\* The process whose request the daemon reads waits, is no longer in the
\* queue, and no restore is in progress.
LEMMA ReceivesQueue ==
  ASSUME TypeOK, QueueInv, NEW p \in Proc, NEW op, Receives(p, op)
  PROVE  /\ proc[p].step = "waits" /\ proc[p] # Idle /\ proc[p] \in Waiting
         /\ proc[p].call.op = op
         /\ restoring = None
         /\ queue' \in Seq(Proc)
         /\ \A i \in 1..Len(queue') : queue'[i] # p /\ proc[queue'[i]].step = "waits"
         /\ \A i, j \in 1..Len(queue') : queue'[i] = queue'[j] => i = j
<1> USE DEF Receives
<1>1. queue \in Seq(Proc) /\ queue # <<>> /\ queue[1] = p
  BY DEF TypeOK
<1>2. queue' \in Seq(Proc) /\ Len(queue') = Len(queue) - 1
      /\ \A i \in 1..Len(queue') : queue'[i] = queue[i + 1] /\ i + 1 \in 1..Len(queue)
  BY <1>1
<1>3. 1 \in 1..Len(queue)
  BY <1>1
<1>4. proc[p].step = "waits"
  BY <1>1, <1>3 DEF QueueInv
<1>5. proc[p] # Idle /\ proc[p] \in Waiting
  BY <1>4, ProcCases
<1>6. \A i \in 1..Len(queue') : queue'[i] # p /\ proc[queue'[i]].step = "waits"
  BY <1>1, <1>2, <1>3 DEF QueueInv
<1>7. \A i, j \in 1..Len(queue') : queue'[i] = queue'[j] => i = j
  BY <1>1, <1>2, <1>3 DEF QueueInv
<1> QED
  BY <1>2, <1>4, <1>5, <1>6, <1>7

-----------------------------------------------------------------------------
(* The steps of the kernel *)

\* A request that is sent takes the lock; nothing is replied or cached.
LEMMA SendStep ==
  ASSUME CacheAgreement, NEW p \in Proc, NEW call \in Calls, Send(p, call)
  PROVE  CacheAgreement'
<1> USE DEF CacheAgreement
<1>1. /\ proc[p] = Idle /\ proc[p].step = "idle"
      /\ proc' \in [Proc -> {Idle} \cup Waiting \cup Answered]
      /\ proc'[p] # Idle /\ proc'[p].step = "waits" /\ proc'[p].call = call
      /\ \A q \in Proc : q # p => proc'[q] = proc[q]
  BY SendProc, ProcCases
<1>2. queue' = Append(queue, p) /\ UNCHANGED <<m_children, state_pool, restoring, dcache>>
  BY DEF Send
<1>3. TypeOK'
  BY <1>1, <1>2 DEF TypeOK
<1>4. QueueInv'
  <2>1. /\ Len(queue') = Len(queue) + 1 /\ queue'[Len(queue) + 1] = p
        /\ Len(queue) \in Nat
        /\ \A i \in 1..Len(queue) : queue'[i] = queue[i] /\ queue[i] \in Proc
    BY <1>2 DEF TypeOK
  <2>2. \A i \in 1..Len(queue) : queue[i] # p
    BY <1>1, <2>1 DEF QueueInv
  <2>3. \A i \in 1..Len(queue') : proc'[queue'[i]].step = "waits"
    BY <1>1, <2>1, <2>2 DEF QueueInv
  <2>4. \A i, j \in 1..Len(queue') : queue'[i] = queue'[j] => i = j
    BY <2>1, <2>2 DEF QueueInv
  <2>5. ASSUME restoring' # None
        PROVE  /\ proc'[restoring'.proc].step = "waits" /\ proc'[restoring'.proc].call.op = "restore"
               /\ state_pool'[restoring'.key] # None
               /\ \A i \in 1..Len(queue') : queue'[i] # restoring'.proc
    <3>1. restoring' = restoring /\ state_pool' = state_pool /\ restoring # None
          /\ restoring.proc \in Proc /\ restoring.proc # p
      BY <1>1, <1>2, <2>5 DEF QueueInv, TypeOK, Restores
    <3> QED
      BY <1>1, <2>1, <3>1 DEF QueueInv
  <2> QED
    BY <2>3, <2>4, <2>5 DEF QueueInv
<1>5. LockInv'
  <2>1. SUFFICES ASSUME NEW d \in Dir, NEW q \in Proc, NEW r \in Proc, q # r,
                        q \in Holders(d)', r \in Holders(d)'
                 PROVE  proc'[q].call.op = "lookup"
    BY DEF LockInv, Holders
  <2>2. CASE q # p /\ r # p
    BY <1>1, <2>1, <2>2 DEF LockInv, Holders
  <2>3. ASSUME p \in Holders(d)' PROVE call \in EntryOps /\ call.dir = d
    BY <1>1, <2>3, CallCases DEF Holders
  <2>4. CASE q = p
    <3>1. r \in Holders(d) BY <1>1, <2>1, <2>4 DEF Holders
    <3> QED BY <1>1, <2>1, <2>3, <2>4, <3>1 DEF Send
  <2>5. CASE r = p
    <3>1. q \in Holders(d) BY <1>1, <2>1, <2>5 DEF Holders
    <3> QED BY <1>1, <2>1, <2>3, <2>5, <3>1 DEF Send, Excluders
  <2> QED
    BY <2>2, <2>4, <2>5
<1>6. \A q \in Proc, op \in {"lookup", "create", "unlink"}, d \in Dir, n \in Name :
         Done(q, op, d, n)' <=> Done(q, op, d, n)
  BY <1>1 DEF Done, In
<1>7. \A q \in Proc, op \in {"lookup", "create", "unlink"}, d \in Dir, n \in Name :
         Done(q, op, d, n) => proc'[q] = proc[q]
  BY <1>1 DEF Done, In
<1>8. ReplyInv' /\ UnlinkInv'
  BY <1>2, <1>6, <1>7 DEF ReplyInv, UnlinkInv
<1>9. CacheInv' /\ RestoreInv'
  BY <1>2, <1>6 DEF CacheInv, RestoreInv
<1> QED
  BY <1>3, <1>4, <1>5, <1>8, <1>9

\* A step in which no process takes a lock.
LEMMA LockKept ==
  ASSUME LockInv,
         \A q \in Proc : proc'[q] # Idle => proc[q] # Idle /\ proc'[q].call = proc[q].call
  PROVE  LockInv'
  BY DEF LockInv, Holders

\* A reply that is entered in the cache, and the lock released.
LEMMA ApplyStep ==
  ASSUME CacheAgreement, NEW p \in Proc, Apply(p)
  PROVE  CacheAgreement'
<1> USE DEF CacheAgreement
<1> DEFINE call == proc[p].call
<1>1. /\ proc[p] # Idle /\ proc[p] \in Answered /\ proc[p].step = "answered"
      /\ proc' \in [Proc -> {Idle} \cup Waiting \cup Answered]
      /\ proc'[p] = Idle
      /\ \A q \in Proc : q # p => proc'[q] = proc[q]
  BY ApplyProc, Zenon DEF Apply
<1>2. UNCHANGED <<m_children, state_pool, restoring, queue>>
  BY DEF Apply
<1>3. call \in Calls /\ proc[p].ok \in BOOLEAN /\ proc[p].ino \in Ino \cup {None}
  BY <1>1 DEF Answered
<1>4. dcache' \in Entries
  <2>1. CASE call \in EntryOps /\ proc[p].ok
    <3>1. dcache' = [dcache EXCEPT ![call.dir][call.name] = proc[p].ino]
      BY <2>1 DEF Apply
    <3> QED
      BY <1>3, <2>1, <3>1, CallCases DEF TypeOK, Entries
  <2>2. CASE ~(call \in EntryOps /\ proc[p].ok)
    BY <2>2 DEF Apply, TypeOK
  <2> QED
    BY <2>1, <2>2
<1>5. TypeOK'
  BY <1>1, <1>2, <1>4 DEF TypeOK
<1>6. \A q \in Proc : proc[q].step = "waits" => proc'[q] = proc[q]
  BY <1>1
<1>7. QueueInv'
  <2>1. \A i \in 1..Len(queue) : queue[i] \in Proc
    BY DEF TypeOK
  <2>2. restoring # None => restoring.proc \in Proc
    BY DEF TypeOK, Restores
  <2> QED
    BY <1>2, <1>6, <2>1, <2>2 DEF QueueInv
<1>8. LockInv'
  <2>1. \A q \in Proc : proc'[q] # Idle => proc[q] # Idle /\ proc'[q].call = proc[q].call
    BY <1>1
  <2> QED
    BY <2>1, LockKept
<1>9. \A q \in Proc, op \in {"lookup", "create", "unlink"}, d \in Dir, n \in Name :
         /\ Done(q, op, d, n)' => Done(q, op, d, n) /\ q # p /\ proc'[q] = proc[q]
         /\ Done(q, op, d, n) /\ q # p => Done(q, op, d, n)'
  BY <1>1 DEF Done, In
<1>10. ReplyInv' /\ UnlinkInv'
  BY <1>2, <1>9 DEF ReplyInv, UnlinkInv
<1>11. ASSUME NEW d \in Dir, NEW n \in Name
       PROVE  \/ dcache'[d][n] = dcache[d][n] /\ \A op \in {"lookup", "create", "unlink"} : ~Done(p, op, d, n)
              \/ dcache'[d][n] = m_children[d][n] /\ (Done(p, "lookup", d, n) \/ Done(p, "create", d, n))
              \/ dcache'[d][n] = None
  <2>1. CASE \A op \in {"lookup", "create", "unlink"} : ~Done(p, op, d, n)
    <3>1. CASE call \in EntryOps /\ proc[p].ok
      <4>1. dcache' = [dcache EXCEPT ![call.dir][call.name] = proc[p].ino]
        BY <3>1 DEF Apply
      <4>2. ~(call.dir = d /\ call.name = n)
        BY <1>1, <1>3, <2>1, <3>1, CallCases DEF Done, In
      <4>3. call.dir \in Dir /\ call.name \in Name
        BY <1>3, <3>1, CallCases
      <4> QED
        BY <2>1, <4>1, <4>2, <4>3 DEF TypeOK, Entries
    <3>2. CASE ~(call \in EntryOps /\ proc[p].ok)
      BY <2>1, <3>2 DEF Apply
    <3> QED
      BY <3>1, <3>2
  <2>2. ASSUME NEW op \in {"lookup", "create", "unlink"}, Done(p, op, d, n)
        PROVE  dcache'[d][n] = proc[p].ino
    <3>1. call \in EntryOps /\ proc[p].ok /\ call.dir = d /\ call.name = n
      BY <1>3, <2>2, CallCases DEF Done, In
    <3>2. dcache' = [dcache EXCEPT ![call.dir][call.name] = proc[p].ino]
      BY <3>1 DEF Apply
    <3> QED
      BY <3>1, <3>2 DEF TypeOK, Entries
  <2>3. CASE Done(p, "lookup", d, n) \/ Done(p, "create", d, n)
    BY <2>2, <2>3 DEF ReplyInv
  <2>4. CASE Done(p, "unlink", d, n)
    BY <2>2, <2>4 DEF UnlinkInv
  <2> QED
    BY <2>1, <2>3, <2>4
<1>12. CacheInv'
  <2>1. SUFFICES ASSUME NEW d \in Dir, NEW n \in Name, dcache'[d][n] # None,
                        dcache'[d][n] # m_children'[d][n]
                 PROVE  \E q \in Proc : Done(q, "unlink", d, n)'
    BY DEF CacheInv
  <2>2. dcache'[d][n] = dcache[d][n] /\ ~Done(p, "unlink", d, n)
    BY <1>2, <1>11, <2>1
  <2>3. PICK q \in Proc : Done(q, "unlink", d, n)
    BY <1>2, <2>1, <2>2 DEF CacheInv
  <2> QED
    BY <1>9, <2>2, <2>3
<1>13. RestoreInv'
  <2>1. SUFFICES ASSUME restoring # None, NEW d \in Dir, NEW n \in Name,
                        m_children[d][n] # None, <<d, n>> \notin restoring.stale
                 PROVE  /\ dcache'[d][n] = None
                        /\ \A q \in Proc : ~Done(q, "lookup", d, n)' /\ ~Done(q, "create", d, n)'
    BY <1>2 DEF RestoreInv
  <2>2. /\ dcache[d][n] = None
        /\ \A q \in Proc : ~Done(q, "lookup", d, n) /\ ~Done(q, "create", d, n)
    BY <2>1 DEF RestoreInv
  <2> QED
    BY <1>9, <1>11, <2>2
<1> QED
  BY <1>5, <1>7, <1>8, <1>10, <1>12, <1>13

\* An entry that drops out of the cache.
LEMMA ExpireStep ==
  ASSUME CacheAgreement, NEW d \in Dir, NEW n \in Name, Expire(d, n)
  PROVE  CacheAgreement'
<1> USE DEF CacheAgreement
<1>1. UNCHANGED <<m_children, state_pool, restoring, queue, proc>>
  BY DEF Expire
<1>2. dcache' \in Entries /\ \A e \in Dir, m \in Name : dcache'[e][m] \in {None, dcache[e][m]}
  BY DEF Expire, TypeOK, Entries
<1>3. TypeOK'
  BY <1>1, <1>2 DEF TypeOK
<1>4. QueueInv' /\ LockInv' /\ ReplyInv' /\ UnlinkInv'
  BY <1>1 DEF QueueInv, LockInv, Holders, ReplyInv, UnlinkInv, Done, In
<1>5. \A q \in Proc, op \in {"lookup", "create", "unlink"}, e \in Dir, m \in Name :
         Done(q, op, e, m)' <=> Done(q, op, e, m)
  BY <1>1 DEF Done, In
<1>6. CacheInv' /\ RestoreInv'
  BY <1>1, <1>2, <1>5 DEF CacheInv, RestoreInv
<1> QED
  BY <1>3, <1>4, <1>6

-----------------------------------------------------------------------------
(* The steps of the daemon *)

\* What a request that is read and answered in one step leaves: the queue,
\* the locks and the restore, of which there is none, are as they should be,
\* and only the process that asked has a reply more.
Answers(p, op, ok, ino) ==
  /\ TypeOK' /\ QueueInv' /\ LockInv' /\ RestoreInv'
  /\ proc[p] \in Waiting /\ proc[p] # Idle /\ proc[p].call.op = op
  /\ proc'[p] # Idle /\ proc'[p].step = "answered" /\ proc'[p].call = proc[p].call
  /\ proc'[p].ok = ok /\ proc'[p].ino = ino
  /\ \A q \in Proc : q # p => proc'[q] = proc[q]
  /\ \A o, d, n : ~Done(p, o, d, n)
  /\ \A q \in Proc : q # p => \A o, d, n : Done(q, o, d, n)' <=> Done(q, o, d, n)

\* A request that is read and answered in one step: the queue, the locks and
\* the restore, of which there is none.
LEMMA AnswerStep ==
  ASSUME CacheAgreement, NEW p \in Proc, NEW op, Receives(p, op),
         NEW ok \in BOOLEAN, NEW ino \in Ino \cup {None}, Reply(p, ok, ino),
         UNCHANGED <<restoring, dcache>>,
         m_children' \in Entries, state_pool' \in [Key -> Entries \cup {None}]
  PROVE  Answers(p, op, ok, ino)
<1> USE DEF CacheAgreement
<1>1. /\ proc[p].step = "waits" /\ proc[p] # Idle /\ proc[p] \in Waiting
      /\ proc[p].call.op = op
      /\ restoring = None
      /\ queue' \in Seq(Proc)
      /\ \A i \in 1..Len(queue') : queue'[i] # p /\ proc[queue'[i]].step = "waits"
      /\ \A i, j \in 1..Len(queue') : queue'[i] = queue'[j] => i = j
  BY ReceivesQueue
<1>2. /\ proc' \in [Proc -> {Idle} \cup Waiting \cup Answered]
      /\ proc'[p] # Idle
      /\ proc'[p].step = "answered" /\ proc'[p].call = proc[p].call
      /\ proc'[p].ok = ok /\ proc'[p].ino = ino
      /\ \A q \in Proc : q # p => proc'[q] = proc[q]
  BY <1>1, ReplyProc
<1>3. TypeOK'
  BY <1>1, <1>2 DEF TypeOK
<1>4. QueueInv'
  <2>1. \A i \in 1..Len(queue') : queue'[i] \in Proc
    BY <1>1
  <2> QED
    BY <1>1, <1>2, <2>1 DEF QueueInv
<1>5. LockInv'
  <2>1. \A q \in Proc : proc'[q] # Idle => proc[q] # Idle /\ proc'[q].call = proc[q].call
    BY <1>1, <1>2
  <2> QED
    BY <2>1, LockKept
<1>6. RestoreInv'
  BY <1>1 DEF RestoreInv
<1>7. \A o, d, n : ~Done(p, o, d, n)
  BY <1>1 DEF Done
<1>8. \A q \in Proc : q # p => \A o, d, n : Done(q, o, d, n)' <=> Done(q, o, d, n)
  BY <1>2 DEF Done, In
<1> QED
  BY <1>1, <1>2, <1>3, <1>4, <1>5, <1>6, <1>7, <1>8 DEF Answers

\* A request that is answered while the entries stay: the reply to a lookup is
\* the entry there is, and no reply claims a change.
EntriesKept(p, op, ok, ino) ==
  /\ Receives(p, op) /\ Reply(p, ok, ino)
  /\ UNCHANGED <<restoring, dcache, m_children>>
  /\ state_pool' \in [Key -> Entries \cup {None}]
  /\ op = "lookup" /\ ok =>
       ino = m_children[proc[p].call.dir][proc[p].call.name] /\ ino # None
  /\ op = "create" => ~ok
  /\ op # "unlink"

\* A reply that leaves the entries as they are keeps the invariant.
LEMMA ReplyStep ==
  ASSUME CacheAgreement, NEW p \in Proc, NEW op, NEW ok \in BOOLEAN, NEW ino \in Ino \cup {None},
         EntriesKept(p, op, ok, ino)
  PROVE  CacheAgreement'
<1>1. /\ TypeOK' /\ QueueInv' /\ LockInv' /\ RestoreInv'
      /\ proc[p].call.op = op
      /\ proc'[p].call = proc[p].call
      /\ proc'[p].ok = ok /\ proc'[p].ino = ino
      /\ \A q \in Proc : q # p => proc'[q] = proc[q]
      /\ \A o, d, n : ~Done(p, o, d, n)
      /\ \A q \in Proc : q # p => \A o, d, n : Done(q, o, d, n)' <=> Done(q, o, d, n)
  <2>1. m_children' \in Entries
    BY DEF EntriesKept, CacheAgreement, TypeOK
  <2>2. Answers(p, op, ok, ino)
    BY <2>1, AnswerStep DEF EntriesKept
  <2> QED
    BY <2>2 DEF Answers
<1>2. \A d, n : ~Done(p, "create", d, n)' /\ ~Done(p, "unlink", d, n)'
  BY <1>1 DEF EntriesKept, Done, In
<1>3. \A d, n : Done(p, "lookup", d, n)' =>
                  proc'[p].ino = m_children[d][n] /\ m_children[d][n] # None
  BY <1>1 DEF EntriesKept, Done, In
<1>4. ReplyInv' /\ UnlinkInv'
  BY <1>1, <1>2, <1>3 DEF EntriesKept, CacheAgreement, ReplyInv, UnlinkInv
<1>5. CacheInv'
  <2>1. \A q \in Proc, d \in Dir, n \in Name : Done(q, "unlink", d, n) => Done(q, "unlink", d, n)'
    BY <1>1
  <2> QED
    BY <2>1 DEF EntriesKept, CacheAgreement, CacheInv
<1> QED
  BY <1>1, <1>4, <1>5 DEF CacheAgreement

\* A request that is answered with the change of an entry: create makes it,
\* unlink takes it away, if it is there.
EntryChanged(p, op, ok, ino) ==
  /\ Receives(p, op) /\ Reply(p, ok, ino)
  /\ UNCHANGED <<restoring, dcache, state_pool>>
  /\ m_children' = [m_children EXCEPT ![proc[p].call.dir][proc[p].call.name] = ino]
  /\ \/ /\ op = "create" /\ ok /\ ino # None
        /\ m_children[proc[p].call.dir][proc[p].call.name] = None
     \/ /\ op = "unlink" /\ ino = None
        /\ ok <=> m_children[proc[p].call.dir][proc[p].call.name] # None

\* No other process has a call on that entry, and none is left with a reply
\* about it.
LEMMA EntryStep ==
  ASSUME CacheAgreement, NEW p \in Proc, NEW op \in {"create", "unlink"},
         NEW ok \in BOOLEAN, NEW ino \in Ino \cup {None}, EntryChanged(p, op, ok, ino)
  PROVE  CacheAgreement'
<1> DEFINE d == proc[p].call.dir
           n == proc[p].call.name
<1>1. proc[p] \in Waiting /\ proc[p] # Idle /\ proc[p].call.op = op
  BY ReceivesQueue DEF CacheAgreement, EntryChanged
<1>2. proc[p].call \in Calls
  BY <1>1 DEF Waiting
<1>3. d \in Dir /\ n \in Name
  BY <1>1, <1>2, CallCases, Zenon
<1> HIDE DEF d, n
<1>4. m_children' \in Entries /\ m_children'[d][n] = ino
      /\ \A e \in Dir, m \in Name : ~(e = d /\ m = n) => m_children'[e][m] = m_children[e][m]
  BY <1>3, Zenon DEF EntryChanged, CacheAgreement, TypeOK, Entries, d, n
<1>5. /\ TypeOK' /\ QueueInv' /\ LockInv' /\ RestoreInv'
      /\ proc'[p].call = proc[p].call /\ proc'[p] # Idle /\ proc'[p].step = "answered"
      /\ proc'[p].ok = ok /\ proc'[p].ino = ino
      /\ \A q \in Proc : q # p => proc'[q] = proc[q]
      /\ \A o, e, m : ~Done(p, o, e, m)
      /\ \A q \in Proc : q # p => \A o, e, m : Done(q, o, e, m)' <=> Done(q, o, e, m)
  <2>1. state_pool' \in [Key -> Entries \cup {None}]
    BY DEF EntryChanged, CacheAgreement, TypeOK
  <2>2. Receives(p, op) /\ Reply(p, ok, ino) /\ UNCHANGED <<restoring, dcache>>
    BY DEF EntryChanged
  <2>3. Answers(p, op, ok, ino)
    BY <1>4, <2>1, <2>2, AnswerStep
  <2> QED
    BY <2>3 DEF Answers
<1>6. \A q \in Proc, o \in {"lookup", "create", "unlink"} : ~Done(q, o, d, n)
  <2>1. SUFFICES ASSUME NEW q \in Proc, NEW o \in {"lookup", "create", "unlink"}, Done(q, o, d, n)
                 PROVE  FALSE
    OBVIOUS
  <2>2. q # p
    BY <1>5, <2>1
  <2>3. p \in Holders(d) /\ q \in Holders(d)
    BY <1>1, <2>1 DEF Holders, Done, In, d
  <2> QED
    BY <1>1, <1>3, <2>2, <2>3 DEF CacheAgreement, LockInv
<1>7. ReplyInv'
  <2>1. SUFFICES ASSUME NEW q \in Proc, NEW e \in Dir, NEW m \in Name,
                        Done(q, "lookup", e, m)' \/ Done(q, "create", e, m)'
                 PROVE  proc'[q].ino = m_children'[e][m] /\ m_children'[e][m] # None
    BY DEF ReplyInv
  <2>2. CASE q = p
    <3>1. op = "create" /\ e = d /\ m = n
      BY <1>1, <1>5, <2>1, <2>2 DEF Done, In, d, n
    <3>2. ino # None
      BY <3>1 DEF EntryChanged
    <3> QED
      BY <1>4, <1>5, <2>2, <3>1, <3>2
  <2>3. CASE q # p
    <3>1. Done(q, "lookup", e, m) \/ Done(q, "create", e, m)
      BY <1>5, <2>1, <2>3
    <3>2. ~(e = d /\ m = n)
      BY <1>6, <3>1
    <3> QED
      BY <1>4, <1>5, <2>3, <3>1, <3>2 DEF CacheAgreement, ReplyInv
  <2> QED
    BY <2>2, <2>3
<1>8. UnlinkInv'
  <2>1. SUFFICES ASSUME NEW q \in Proc, NEW e \in Dir, NEW m \in Name, Done(q, "unlink", e, m)'
                 PROVE  proc'[q].ino = None
    BY DEF UnlinkInv
  <2>2. CASE q = p
    <3>1. op = "unlink"
      BY <1>1, <1>5, <2>1, <2>2 DEF Done, In
    <3> QED
      BY <1>5, <2>2, <3>1 DEF EntryChanged
  <2>3. CASE q # p
    BY <1>5, <2>1, <2>3 DEF CacheAgreement, UnlinkInv
  <2> QED
    BY <2>2, <2>3
<1>9. CacheInv'
  <2>1. SUFFICES ASSUME NEW e \in Dir, NEW m \in Name,
                        dcache[e][m] # None, dcache[e][m] # m_children'[e][m]
                 PROVE  \E q \in Proc : Done(q, "unlink", e, m)'
    BY Zenon DEF CacheInv, EntryChanged
  <2>2. CASE e = d /\ m = n
    <3>1. \A q \in Proc : ~Done(q, "unlink", e, m)
      BY <1>6, <2>2
    <3>2. dcache[e][m] = m_children[e][m]
      BY <2>1, <3>1, Zenon DEF CacheAgreement, CacheInv
    <3>3. op = "unlink" /\ ok
      BY <1>4, <2>1, <2>2, <3>2, Zenon DEF EntryChanged, d, n
    <3>4. proc'[p].call.op = "unlink" /\ proc'[p].call.dir = e /\ proc'[p].call.name = m
      BY <1>1, <1>5, <2>2, <3>3 DEF d, n
    <3>5. proc'[p] # Idle /\ proc'[p].step = "answered" /\ proc'[p].ok
      BY <1>5, <3>3
    <3>6. Done(p, "unlink", e, m)'
      BY <3>4, <3>5 DEF Done, In
    <3> QED
      BY <3>6
  <2>3. CASE ~(e = d /\ m = n)
    <3>1. PICK q \in Proc : Done(q, "unlink", e, m)
      BY <1>4, <2>1, <2>3 DEF CacheAgreement, CacheInv
    <3> QED
      BY <1>5, <3>1
  <2> QED
    BY <2>2, <2>3, Zenon
<1> QED
  BY <1>5, <1>7, <1>8, <1>9 DEF CacheAgreement

\* Each handler is one of the two.
LEMMA LookupStep ==
  ASSUME CacheAgreement, NEW p \in Proc, FuseLookup(p)
  PROVE  CacheAgreement'
<1> DEFINE ino == m_children[proc[p].call.dir][proc[p].call.name]
           ok == ino # None
<1>1. Receives(p, "lookup") /\ Reply(p, ok, ino)
      /\ UNCHANGED <<m_children, state_pool, restoring, dcache>>
  BY Zenon DEF FuseLookup
<1>2. proc[p] \in Waiting /\ proc[p].call.op = "lookup"
  BY <1>1, ReceivesQueue DEF CacheAgreement
<1>3. proc[p].call.dir \in Dir /\ proc[p].call.name \in Name
  BY <1>2, CallCases DEF Waiting
<1>4. ino \in Ino \cup {None} /\ ok \in BOOLEAN
  BY <1>3 DEF CacheAgreement, TypeOK, Entries
<1>5. EntriesKept(p, "lookup", ok, ino)
  BY <1>1, Zenon DEF EntriesKept, CacheAgreement, TypeOK
<1> HIDE DEF ino, ok
<1> QED
  BY <1>4, <1>5, ReplyStep

\* The reply to a create keeps the invariant.
LEMMA CreateStep ==
  ASSUME CacheAgreement, NEW p \in Proc, FuseCreate(p)
  PROVE  CacheAgreement'
<1>1. Receives(p, "create") /\ UNCHANGED <<state_pool, restoring, dcache>>
  BY Zenon DEF FuseCreate
<1>2. CASE Reply(p, FALSE, None) /\ UNCHANGED m_children
  <2> DEFINE ok == FALSE
  <2>1. EntriesKept(p, "create", ok, None)
    BY <1>1, <1>2, Zenon DEF EntriesKept, CacheAgreement, TypeOK
  <2>2. ok \in BOOLEAN
    OBVIOUS
  <2> HIDE DEF ok
  <2> QED
    BY <2>1, <2>2, ReplyStep
<1>3. ASSUME NEW ino \in Ino, Reply(p, TRUE, ino),
             m_children[proc[p].call.dir][proc[p].call.name] = None,
             m_children' = [m_children EXCEPT ![proc[p].call.dir][proc[p].call.name] = ino]
      PROVE  CacheAgreement'
  <2> DEFINE ok == TRUE
  <2>1. EntryChanged(p, "create", ok, ino)
    BY <1>1, <1>3, NoneIsNoInode, Zenon DEF EntryChanged
  <2>2. ok \in BOOLEAN
    OBVIOUS
  <2> HIDE DEF ok
  <2> QED
    BY <2>1, <2>2, EntryStep
<1> QED
  BY <1>2, <1>3, Zenon DEF FuseCreate

\* The reply to an unlink keeps the invariant.
LEMMA UnlinkStep ==
  ASSUME CacheAgreement, NEW p \in Proc, FuseUnlink(p)
  PROVE  CacheAgreement'
<1> DEFINE ok == m_children[proc[p].call.dir][proc[p].call.name] # None
<1>1. EntryChanged(p, "unlink", ok, None) /\ ok \in BOOLEAN
  BY Zenon DEF FuseUnlink, EntryChanged
<1> HIDE DEF ok
<1> QED
  BY <1>1, EntryStep

\* The reply to a checkpoint keeps the invariant.
LEMMA CheckpointStep ==
  ASSUME CacheAgreement, NEW p \in Proc, checkpoint(p)
  PROVE  CacheAgreement'
<1> DEFINE k == proc[p].call.key
           ok == state_pool[k] = None
<1>1. /\ Receives(p, "checkpoint") /\ Reply(p, ok, None)
      /\ UNCHANGED <<restoring, dcache, m_children>>
      /\ state_pool' = [state_pool EXCEPT ![k] = IF @ = None THEN m_children ELSE @]
  BY Zenon DEF checkpoint
<1>2. state_pool' \in [Key -> Entries \cup {None}] /\ ok \in BOOLEAN
  BY <1>1, Zenon DEF CacheAgreement, TypeOK
<1> HIDE DEF ok, k
<1>3. EntriesKept(p, "checkpoint", ok, None)
  BY <1>1, <1>2 DEF EntriesKept
<1> QED
  BY <1>2, <1>3, ReplyStep

\* restore, which either finds no such key or begins to invalidate: the
\* entries of the state it will replace are all stale.
LEMMA RestoreStep ==
  ASSUME CacheAgreement, NEW p \in Proc, restore(p)
  PROVE  CacheAgreement'
<1> DEFINE k == proc[p].call.key
<1>1. Receives(p, "restore") /\ UNCHANGED <<m_children, state_pool, dcache>>
  BY DEF restore
<1>2. CASE Reply(p, FALSE, None) /\ UNCHANGED restoring
  <2> DEFINE ok == FALSE
  <2>1. EntriesKept(p, "restore", ok, None)
    BY <1>1, <1>2, Zenon DEF EntriesKept, CacheAgreement, TypeOK
  <2>2. ok \in BOOLEAN
    OBVIOUS
  <2> HIDE DEF ok
  <2> QED
    BY <2>1, <2>2, ReplyStep
<1>3. CASE /\ state_pool[k] # None
           /\ restoring' = [proc |-> p, key |-> k, stale |-> Present(m_children)]
           /\ UNCHANGED proc
  <2>1. /\ proc[p].step = "waits" /\ proc[p] \in Waiting /\ proc[p].call.op = "restore"
        /\ queue' \in Seq(Proc)
        /\ \A i \in 1..Len(queue') : queue'[i] # p /\ proc[queue'[i]].step = "waits"
        /\ \A i, j \in 1..Len(queue') : queue'[i] = queue'[j] => i = j
    BY <1>1, ReceivesQueue DEF CacheAgreement
  <2>2. k \in Key
    BY <2>1, CallCases DEF Waiting
  <2>3. TypeOK'
    BY <1>1, <1>3, <2>1, <2>2 DEF CacheAgreement, TypeOK, Restores, Present
  <2>4. QueueInv'
    BY <1>1, <1>3, <2>1 DEF QueueInv
  <2>5. LockInv' /\ ReplyInv' /\ UnlinkInv' /\ CacheInv'
    <3>1. UNCHANGED <<m_children, dcache, proc>>
      BY <1>1, <1>3
    <3>2. LockInv' /\ ReplyInv'
      BY <3>1 DEF CacheAgreement, LockInv, Holders, ReplyInv, Done, In
    <3>3. UnlinkInv' /\ CacheInv'
      BY <3>1 DEF CacheAgreement, UnlinkInv, CacheInv, Done, In
    <3> QED
      BY <3>2, <3>3
  <2>6. RestoreInv'
    BY <1>1, <1>3, Zenon DEF RestoreInv, Present
  <2> QED
    BY <2>3, <2>4, <2>5, <2>6 DEF CacheAgreement
<1> QED
  BY <1>2, <1>3, Zenon DEF restore, RestoreMissing, StaleEntries

\* One invalidation: the lock it has had says that no call on the directory is
\* under way.
LEMMA InvalidateStep ==
  ASSUME CacheAgreement, invalidate_kernel_states
  PROVE  CacheAgreement'
<1>1. restoring # None /\ restoring \in Restores
  BY DEF invalidate_kernel_states, CacheAgreement, TypeOK
<1>2. PICK at \in restoring.stale :
        /\ Holders(at[1]) = {}
        /\ dcache' = [dcache EXCEPT ![at[1]][at[2]] = None]
        /\ restoring' = [restoring EXCEPT !.stale = @ \ {at}]
  BY Zenon DEF invalidate_kernel_states
<1>3. at \in Dir \X Name /\ at[1] \in Dir /\ at[2] \in Name /\ at = <<at[1], at[2]>>
  BY <1>1 DEF Restores
<1>4. UNCHANGED <<m_children, state_pool, queue, proc>>
  BY DEF invalidate_kernel_states
<1>5. restoring' \in Restores /\ restoring'.proc = restoring.proc
      /\ restoring'.key = restoring.key /\ restoring'.stale = restoring.stale \ {at}
  BY <1>1, <1>2 DEF Restores
<1>6. dcache' \in Entries /\ dcache'[at[1]][at[2]] = None
      /\ \A d \in Dir, n \in Name : <<d, n>> # at => dcache'[d][n] = dcache[d][n]
  BY <1>2, <1>3 DEF CacheAgreement, TypeOK, Entries
<1>7. TypeOK'
  BY <1>4, <1>5, <1>6 DEF CacheAgreement, TypeOK
<1>8. QueueInv'
  BY <1>1, <1>4, <1>5 DEF CacheAgreement, QueueInv
<1>9. LockInv' /\ ReplyInv' /\ UnlinkInv'
  BY <1>4 DEF CacheAgreement, LockInv, Holders, ReplyInv, UnlinkInv, Done, In
<1>10. \A q \in Proc, op \in {"lookup", "create", "unlink"}, d \in Dir, n \in Name :
         Done(q, op, d, n)' <=> Done(q, op, d, n)
  BY <1>4 DEF Done, In
<1>11. CacheInv'
  BY <1>3, <1>4, <1>6, <1>10 DEF CacheAgreement, CacheInv
<1>12. \A q \in Proc, op \in {"lookup", "create", "unlink"} : ~Done(q, op, at[1], at[2])
  BY <1>2 DEF Holders, Done, In
<1>13. RestoreInv'
  <2>1. SUFFICES ASSUME NEW d \in Dir, NEW n \in Name,
                        m_children[d][n] # None, <<d, n>> \notin restoring'.stale
                 PROVE  /\ dcache'[d][n] = None
                        /\ \A q \in Proc : ~Done(q, "lookup", d, n)' /\ ~Done(q, "create", d, n)'
    BY <1>4 DEF RestoreInv
  <2>2. CASE <<d, n>> = at
    BY <1>3, <1>6, <1>10, <1>12, <2>2
  <2>3. CASE <<d, n>> # at
    BY <1>1, <1>5, <1>6, <1>10, <2>1, <2>3 DEF CacheAgreement, RestoreInv
  <2> QED
    BY <2>2, <2>3
<1> QED
  BY <1>7, <1>8, <1>9, <1>11, <1>13 DEF CacheAgreement

\* The stored state in place of the old one, of which the cache and the
\* replies under way have nothing.
LEMMA RestoreStateStep ==
  ASSUME CacheAgreement, RestoreState
  PROVE  CacheAgreement'
<1> DEFINE p == restoring.proc
<1>1. restoring # None /\ restoring \in Restores /\ p \in Proc /\ restoring.key \in Key
  BY DEF RestoreState, CacheAgreement, TypeOK, Restores
<1>2. proc[p].step = "waits" /\ proc[p].call.op = "restore" /\ state_pool[restoring.key] # None
      /\ \A i \in 1..Len(queue) : queue[i] # p
  BY <1>1 DEF CacheAgreement, QueueInv
<1>3. restoring.stale = {} /\ restoring' = None /\ UNCHANGED <<queue, dcache>>
      /\ Reply(p, TRUE, None)
  BY Zenon DEF RestoreState
<1>4. m_children' \in Entries /\ state_pool' \in [Key -> Entries \cup {None}]
  BY <1>1, <1>2 DEF RestoreState, CacheAgreement, TypeOK
<1> HIDE DEF p
<1>5. /\ proc' \in [Proc -> {Idle} \cup Waiting \cup Answered]
      /\ proc[p] # Idle /\ proc'[p] # Idle /\ proc'[p].call = proc[p].call
      /\ \A q \in Proc : q # p => proc'[q] = proc[q]
  BY <1>1, <1>2, <1>3, ReplyProc, Zenon DEF CacheAgreement
<1>6. TypeOK'
  BY <1>3, <1>4, <1>5 DEF CacheAgreement, TypeOK
<1>7. QueueInv'
  <2>1. \A i \in 1..Len(queue) : queue[i] \in Proc
    BY DEF CacheAgreement, TypeOK
  <2> QED
    BY <1>2, <1>3, <1>5, <2>1 DEF CacheAgreement, QueueInv
<1>8. LockInv'
  <2>1. \A q \in Proc : proc'[q] # Idle => proc[q] # Idle /\ proc'[q].call = proc[q].call
    BY <1>5
  <2> QED
    BY <2>1, LockKept DEF CacheAgreement
<1>9. \A q \in Proc, op \in {"lookup", "create", "unlink"}, d \in Dir, n \in Name :
         /\ Done(q, op, d, n)' <=> Done(q, op, d, n)
         /\ Done(q, op, d, n) => q # p /\ proc'[q] = proc[q]
  BY <1>2, <1>5 DEF Done, In
<1>10. ASSUME NEW d \in Dir, NEW n \in Name, m_children[d][n] # None
       PROVE  /\ dcache[d][n] = None
              /\ \A q \in Proc : ~Done(q, "lookup", d, n) /\ ~Done(q, "create", d, n)
  BY <1>1, <1>3, <1>10 DEF CacheAgreement, RestoreInv
<1>11. \A q \in Proc, d \in Dir, n \in Name : ~Done(q, "lookup", d, n) /\ ~Done(q, "create", d, n)
  BY <1>10 DEF CacheAgreement, ReplyInv
<1>12. ReplyInv'
  BY <1>9, <1>11 DEF ReplyInv
<1>13. UnlinkInv'
  BY <1>9 DEF CacheAgreement, UnlinkInv
<1>14. CacheInv'
  BY <1>3, <1>9, <1>10 DEF CacheAgreement, CacheInv
<1>15. RestoreInv'
  BY <1>3 DEF RestoreInv
<1> QED
  BY <1>6, <1>7, <1>8, <1>12, <1>13, <1>14, <1>15 DEF CacheAgreement

-----------------------------------------------------------------------------
\* The initial state: nothing cached, no call.
LEMMA InitAgrees == Init => CacheAgreement
<1> SUFFICES ASSUME Init PROVE CacheAgreement
  OBVIOUS
<1>1. TypeOK
  BY DEF Init, TypeOK, NoEntries, Entries
<1>2. QueueInv
  BY DEF Init, QueueInv
<1>3. \A p \in Proc : proc[p] = Idle
  BY DEF Init
<1>4. LockInv /\ ReplyInv /\ UnlinkInv
  BY <1>3 DEF LockInv, Holders, ReplyInv, UnlinkInv, Done, In
<1>5. CacheInv /\ RestoreInv
  BY DEF Init, NoEntries, CacheInv, RestoreInv
<1> QED
  BY <1>1, <1>2, <1>4, <1>5 DEF CacheAgreement

\* Every step of the kernel, the processes and the daemon keeps CacheAgreement.
LEMMA NextAgrees == CacheAgreement /\ [Next]_vars => CacheAgreement'
<1> SUFFICES ASSUME CacheAgreement, [Next]_vars PROVE CacheAgreement'
  OBVIOUS
<1>1. ASSUME NEW p \in Proc, NEW call \in EntryOps \cup Ioctls, Send(p, call)
      PROVE  CacheAgreement'
  BY <1>1, SendStep DEF Calls
<1>2. ASSUME NEW p \in Proc, Apply(p) PROVE CacheAgreement'
  BY <1>2, ApplyStep
<1>3. ASSUME NEW d \in Dir, NEW n \in Name, Expire(d, n) PROVE CacheAgreement'
  BY <1>3, ExpireStep
<1>4. ASSUME NEW p \in Proc,
             FuseLookup(p) \/ FuseCreate(p) \/ FuseUnlink(p) \/ checkpoint(p) \/ restore(p)
      PROVE  CacheAgreement'
  BY <1>4, LookupStep, CreateStep, UnlinkStep, CheckpointStep, RestoreStep
<1>5. CASE invalidate_kernel_states
  BY <1>5, InvalidateStep
<1>6. CASE RestoreState
  BY <1>6, RestoreStateStep
<1>7. CASE UNCHANGED vars
  <2>1. UNCHANGED <<m_children, state_pool, restoring, queue, proc, dcache>>
    BY <1>7 DEF vars
  <2>2. TypeOK' /\ QueueInv'
    BY <2>1 DEF CacheAgreement, TypeOK, QueueInv
  <2>3. LockInv' /\ ReplyInv' /\ UnlinkInv'
    BY <2>1 DEF CacheAgreement, LockInv, Holders, ReplyInv, UnlinkInv, Done, In
  <2>4. CacheInv' /\ RestoreInv'
    BY <2>1 DEF CacheAgreement, CacheInv, RestoreInv, Done, In
  <2> QED
    BY <2>2, <2>3, <2>4 DEF CacheAgreement
<1> QED
  BY <1>1, <1>2, <1>3, <1>4, <1>5, <1>6, <1>7 DEF Next

\* fuse_cpp_ramfs.cpp, invalidate_kernel_states: whatever the calls under way
\* when a restore is asked for, what the kernel has cached of a directory on
\* which no call is under way is what the daemon holds.
THEOREM CacheAgrees == Spec => []CachedEntriesAgree
<1>1. CacheAgreement => CachedEntriesAgree
  <2> SUFFICES ASSUME CacheAgreement, NEW d \in Dir, NEW n \in Name,
                      Holders(d) = {}, dcache[d][n] # None
               PROVE  dcache[d][n] = m_children[d][n]
    BY DEF CachedEntriesAgree
  <2>1. \A p \in Proc : ~Done(p, "unlink", d, n)
    BY DEF Holders, Done, In
  <2> QED
    BY <2>1 DEF CacheAgreement, CacheInv
<1> QED
  BY <1>1, InitAgrees, NextAgrees, PTL DEF Spec

=============================================================================
