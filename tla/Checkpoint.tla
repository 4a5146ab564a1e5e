----------------------------- MODULE Checkpoint -----------------------------
(***************************************************************************)
(* checkpoint and restore over the inode table and the namespace of        *)
(* FuseRamFs, with the state pool of cr_util.cpp.  A restore gives the     *)
(* daemon an older table while the kernel keeps what it knows: the lookups *)
(* it holds are those of before.  The notifications that restore sends     *)
(* drop names from the kernel's cache and no lookups; see SessionLoop.     *)
(***************************************************************************)
EXTENDS FuseRamFs, Functions, TLC

CONSTANTS
  Key,         \* the keys of checkpoints
  MaxRestores  \* bound: the restores of a run

VARIABLES
  state_pool,  \* the checkpoints by key
  restores     \* counts up to MaxRestores

cvars == <<vars, state_pool, restores>>

\* The copies of all inodes, empty slots included, the queue and m_stbuf.
Snapshot ==
  [Inodes |-> Inodes, DeletedInodes |-> DeletedInodes,
   f_bfree |-> f_bfree, f_ffree |-> f_ffree]

-----------------------------------------------------------------------------
(* The pool *)

\* A key that is in use is refused.
insert_state(key, s) ==
  \/ key \in DOMAIN state_pool /\ reply' = <<"EEXIST">> /\ UNCHANGED state_pool
  \/ /\ key \notin DOMAIN state_pool /\ reply' = <<"OK">>
     /\ state_pool' = (key :> s) @@ state_pool

\* A key that is not there has an empty state.
find_state(key) ==
  IF key \in DOMAIN state_pool THEN state_pool[key]
  ELSE [Inodes |-> <<>>, DeletedInodes |-> <<>>, f_bfree |-> 0, f_ffree |-> 0]

remove_state(key) == state_pool' = Restrict(state_pool, DOMAIN state_pool \ {key})

-----------------------------------------------------------------------------
checkpoint(key) ==
  insert_state(key, Snapshot) /\ UNCHANGED <<Inodes, DeletedInodes, stbuf, kernel, restores>>

\* Fault: the queue stays as it is.
SetStateKeepsQueue(s) ==
  Inodes' = s.Inodes /\ f_bfree' = s.f_bfree /\ f_ffree' = s.f_ffree
  /\ UNCHANGED DeletedInodes
\* Fault: m_stbuf stays as it is.
SetStateKeepsCounts(s) ==
  Inodes' = s.Inodes /\ DeletedInodes' = s.DeletedInodes /\ UNCHANGED stbuf
SetState(s) ==
  /\ Inodes' = s.Inodes /\ DeletedInodes' = s.DeletedInodes
  /\ f_bfree' = s.f_bfree /\ f_ffree' = s.f_ffree

\* A restore takes its key from the pool.
restore(key) ==
  /\ restores < MaxRestores
  /\ LET stored == find_state(key)
     IN  IF stored.Inodes = <<>> /\ stored.DeletedInodes = <<>>
         THEN Fail(<<"ENOENT">>) /\ UNCHANGED <<state_pool, restores>>
         ELSE /\ SetState(stored) /\ remove_state(key)
              /\ restores' = restores + 1
              /\ reply' = <<"OK">> /\ UNCHANGED kernel

CInit == Init /\ state_pool = <<>> /\ restores = 0

CNext ==
  \/ Next /\ UNCHANGED <<state_pool, restores>>
  \/ \E key \in Key : checkpoint(key) \/ restore(key)

CSpec == CInit /\ [][CNext]_cvars

-----------------------------------------------------------------------------
(* Properties.  Those of FuseRamFs that do not speak of the kernel hold     *)
(* across restores too: QueueHoldsEmptySlots, FreeInodesAccounted           *)
(* and EntriesNameLinkedInodes.                                             *)

\* FuseRmdir: the links are removed "so it can be cleaned up later".  An inode
\* without links is freed by a FORGET, so the kernel still has one to send.
RemovedIsCleanedUp ==
  \A i \in Live \ {Root} : Inodes[i].nlink = 0 => kref[i] > 0

=============================================================================
