------------------------------ MODULE Readdir ------------------------------
(***************************************************************************)
(* Directory listings: FuseReadDir, PrepareReaddir, RecycleStates and the  *)
(* contexts in readdirStates, read by clients while entries are added,     *)
(* removed and replaced.  A context is a copy of the children with an      *)
(* iterator; the cookie of an entry names the context, not the entry.      *)
(* The daemon answers one request at a time, so a request is one step.     *)
(***************************************************************************)
EXTENDS Integers, Sequences, FiniteSets, FiniteSetsExt, SequencesExt, Functions, TLC

CONSTANTS
  Client, Dir,     \* processes that list, and the directories
  Name, NameLen,   \* names of entries and their lengths
  Ino,             \* the inode numbers of children
  Dot, DotDot,     \* the names "." and ".."
  Keys,            \* 65536: the keys of contexts are 0..Keys-1
  Span,            \* 65536: the cookies below one key
  FirstChildren,   \* bound: the entries of the directories at first
  MaxChanges,      \* bound: changes of the directories
  MaxListings,     \* bound: listings that are begun
  MaxAbandoned,    \* bound: listings that are given up
  WholeReplies     \* the buffer of getdents has room for every reply

ASSUME ReaddirAssumption ==
  /\ Keys \in Nat \ {0} /\ Span \in Nat \ {0} /\ WholeReplies \in BOOLEAN
  /\ NameLen \in [Name \cup {Dot, DotDot} -> 1..255]
  /\ FirstChildren \in [Dir -> Seq([name : Name, ino : Ino])]

VARIABLES
  m_children,     \* the entries of every directory, in order
  removed,        \* the directories that rmdir removed
  readdirStates,  \* the contexts
  listing,        \* what every client is doing, and what it got so far
  changes,        \* counts up to MaxChanges
  begun           \* counts up to MaxListings

vars == <<m_children, removed, readdirStates, listing, changes, begun>>

-----------------------------------------------------------------------------
kReadDirBufSize == 384
kReadDirEntriesPerResponse == 255

\* The bytes fuse_add_direntry needs for a name: a header of 24, aligned to 8.
DirentSize(name) == ((24 + NameLen[name] + 7) \div 8) * 8

Entry(name, ino) == [name |-> name, ino |-> ino]
NamesIn(children) == {children[i].name : i \in DOMAIN children}

\* The inodes that have a link: a directory until it is removed, and a child
\* while an entry names it.
Linked == UNION {{m_children[d][i].ino : i \in DOMAIN m_children[d]} : d \in Dir \ removed}

Idle == [state |-> "idle"]
\* A listing of dir with the offset of its next request, the entries it got,
\* the names that nobody has touched since it began, and whether it has had its
\* context to itself.
Listing(dir) ==
  [state |-> "reading", dir |-> dir, off |-> 0, got |-> <<>>,
   stayed |-> NamesIn(m_children[dir]), own |-> TRUE]

Init ==
  /\ m_children = [d \in Dir |->
       <<Entry(Dot, d), Entry(DotDot, d)>> \o FirstChildren[d]]
  /\ removed = {} /\ readdirStates = <<>> /\ changes = 0 /\ begun = 0
  /\ listing = [c \in Client |-> Idle]

-----------------------------------------------------------------------------
(* The loop of FuseReadDir over the context ctx *)

\* The entries the loop still has to look at, but for those it skips because
\* their inode is gone.
Live(ctx) ==
  {i \in ctx.it..Len(ctx.children) : ctx.children[i].ino \in Linked}

\* The entries the loop adds before the reply is full: with the ones up to i
\* it has bytesAdded[i] bytes.
Sent(ctx, live) ==
  LET bytesAdded[i \in Nat] ==
        IF i < ctx.it THEN 0
        ELSE bytesAdded[i - 1] + (IF i \in live THEN DirentSize(ctx.children[i].name) ELSE 0)
  IN  {i \in live : /\ bytesAdded[i] <= kReadDirBufSize
                    /\ Cardinality({j \in live : j <= i}) <= kReadDirEntriesPerResponse}

\* Fault: the iterator steps back twice.
BackUpTwice(i) == i - 2
\* Fault: the entry that did not fit is left out.
BackUpPast(i) == i + 1
\* --(ctx->it)
BackUp(i) == i - 1

\* The context after the loop.  An entry for which there was no room has
\* taken a cookie.
Advanced(ctx, live, sent) ==
  LET rest == live \ sent
      oops == rest # {} /\ Cardinality(sent) < kReadDirEntriesPerResponse
  IN  [ctx EXCEPT
         !.it = IF rest = {} THEN Len(ctx.children) + 1
                ELSE IF oops THEN BackUp(Min(rest)) ELSE Max(sent) + 1,
         !.cookie = @ + Cardinality(sent) + (IF oops THEN 1 ELSE 0)]

\* The entries of the reply, each with its cookie.
Response(ctx, sent) ==
  LET indices == SelectSeq([i \in DOMAIN ctx.children |-> i], LAMBDA i : i \in sent)
  IN  [k \in DOMAIN indices |->
         [name |-> ctx.children[indices[k]].name, index |-> indices[k],
          cookie |-> ctx.cookie + k]]

\* Fault: contexts that reached their end are kept.
RecycleStatesNone(states) == states
RecycleStates(states) ==
  RestrictValues(states, LAMBDA ctx : ctx.it # Len(ctx.children) + 1)

-----------------------------------------------------------------------------
(* The kernel and its clients: external *)

\* What getdents takes of a reply: all of it, or as many entries as the
\* client's buffer has room for.
Taken(resp) ==
  IF WholeReplies THEN {resp} ELSE {SubSeq(resp, 1, n) : n \in 1..Len(resp)}

\* The key of the context that an offset leads to, and the clients whose next
\* request it answers.
KeyOf(off) == (off \div Span) % Keys
Users(key) ==
  {c \in Client : listing[c].state = "reading" /\ listing[c].off # 0 /\ KeyOf(listing[c].off) = key}

\* A reply without entries ends the listing.
ReceiveEnd(c) == listing' = [listing EXCEPT ![c].state = "ended"]

\* Else the next request carries the cookie of the last entry taken.  A client
\* has a context to itself while it takes whole replies, whose cookies have
\* the key of the context, and no other client uses it.
Receive(c, key, resp) ==
  IF resp = <<>> THEN ReceiveEnd(c)
  ELSE \E taken \in Taken(resp) :
         LET off == Last(taken).cookie
             others == Users(key) \ {c}
         IN  listing' = [k \in Client |->
               IF k = c
               THEN [listing[c] EXCEPT !.off = off, !.got = @ \o taken,
                       !.own = @ /\ others = {} /\ taken = resp /\ KeyOf(off) = key]
               ELSE IF k \in others THEN [listing[k] EXCEPT !.own = FALSE] ELSE listing[k]]

\* FuseOpenDir and FuseReleaseDir change nothing in the daemon.
FuseOpenDir(c, d) ==
  /\ listing[c].state \in {"idle", "ended", "failed"} /\ d \notin removed
  /\ begun < MaxListings /\ begun' = begun + 1
  /\ listing' = [listing EXCEPT ![c] = Listing(d)]
  /\ UNCHANGED <<m_children, removed, readdirStates, changes>>

\* The contexts that the next request of no client leads to.
Abandoned == {k \in DOMAIN readdirStates : Users(k) = {}}

\* A client closes the directory before the end.
FuseReleaseDir(c) ==
  /\ listing[c].state = "reading" /\ listing[c].off # 0
  /\ Cardinality(Abandoned) < MaxAbandoned
  /\ listing' = [listing EXCEPT ![c] = Idle]
  /\ UNCHANGED <<m_children, removed, readdirStates, changes, begun>>

-----------------------------------------------------------------------------
(* FuseReadDir *)

\* The contexts PrepareReaddir may choose: any free key for a new listing,
\* and the one in the cookie for the others, if it is there.
PrepareReaddir(d, off) ==
  IF off # 0 THEN {KeyOf(off)} \cap DOMAIN readdirStates
  ELSE (0..(Keys - 1)) \ DOMAIN readdirStates

Context(d, off, key) ==
  IF off # 0 THEN readdirStates[key]
  ELSE [cookie |-> key * Span, it |-> 1, children |-> m_children[d]]

\* Fault: std::out_of_range is caught and nothing is sent.
OutOfRangeNoReply(c) == UNCHANGED listing
\* A cookie that has no context gets an empty reply.
OutOfRange(c) == ReceiveEnd(c)

\* With every key taken, the search for a free one does not end.  (\E over one
\* value has TLC compute it once.)
FuseReadDir(c) ==
  LET d == listing[c].dir
      off == listing[c].off
  IN  /\ listing[c].state = "reading"
      /\ \/ /\ d \in removed
            /\ listing' = [listing EXCEPT ![c].state = "failed"]
            /\ UNCHANGED readdirStates
         \/ /\ d \notin removed /\ off # 0 /\ PrepareReaddir(d, off) = {}
            /\ OutOfRange(c) /\ UNCHANGED readdirStates
         \/ /\ d \notin removed
            /\ \E key \in PrepareReaddir(d, off) :
               \E ctx \in {Context(d, off, key)} :
               \E live \in {Live(ctx)} : \E sent \in {Sent(ctx, live)} :
                 /\ readdirStates' = RecycleStates((key :> Advanced(ctx, live, sent)) @@ readdirStates)
                 /\ \E resp \in {Response(ctx, sent)} : Receive(c, key, resp)
      /\ UNCHANGED <<m_children, removed, changes, begun>>

-----------------------------------------------------------------------------
(* Changes of the directories, by their entries; FuseRamFs has the rest *)

Change(d) ==
  changes < MaxChanges /\ changes' = changes + 1 /\ d \notin removed
  /\ UNCHANGED <<readdirStates, begun>>

\* Every listing of d now has the name touched.
Touch(d, name) ==
  listing' = [c \in Client |->
    IF listing[c].state = "reading" /\ listing[c].dir = d
    THEN [listing[c] EXCEPT !.stayed = @ \ {name}] ELSE listing[c]]

\* By a creation with a free number, which an older entry may have had, or by
\* a new link.
AddChild(d, name, ino) ==
  /\ Change(d) /\ name \notin NamesIn(m_children[d])
  /\ m_children' = [m_children EXCEPT ![d] = Append(@, Entry(name, ino))]
  /\ UNCHANGED <<removed, listing>>

UpdateChild(d, name, ino) ==
  /\ Change(d) /\ name \in NamesIn(m_children[d])
  /\ m_children' = [m_children EXCEPT ![d] =
       [i \in DOMAIN @ |-> IF @[i].name = name THEN Entry(name, ino) ELSE @[i]]]
  /\ Touch(d, name) /\ UNCHANGED removed

RemoveChild(d, name) ==
  /\ Change(d) /\ name \in NamesIn(m_children[d])
  /\ m_children' = [m_children EXCEPT ![d] = SelectSeq(@, LAMBDA e : e.name # name)]
  /\ Touch(d, name) /\ UNCHANGED removed

FuseRmdir(d) ==
  /\ Change(d) /\ NamesIn(m_children[d]) = {Dot, DotDot}
  /\ removed' = removed \cup {d}
  /\ UNCHANGED <<m_children, listing>>

-----------------------------------------------------------------------------
Next ==
  \/ \E c \in Client, d \in Dir : FuseOpenDir(c, d)
  \/ \E c \in Client : FuseReleaseDir(c) \/ FuseReadDir(c)
  \/ \E d \in Dir, name \in Name, ino \in Ino : AddChild(d, name, ino) \/ UpdateChild(d, name, ino)
  \/ \E d \in Dir, name \in Name : RemoveChild(d, name)
  \/ \E d \in Dir : FuseRmdir(d)

Spec == Init /\ [][Next]_vars

\* A client asks until it gets an empty reply, and the session loop answers
\* every request.
FairSpec == Spec /\ \A c \in Client : WF_vars(FuseReadDir(c))

-----------------------------------------------------------------------------
(* Properties *)

Names(c) == {listing[c].got[k].name : k \in DOMAIN listing[c].got}

\* The table has no context that RecycleStates should have freed, and no
\* iterator is outside its copy of the children, where ++ and -- must not take
\* it: the next request that uses it has an entry to look at.
ContextsInRange ==
  /\ DOMAIN readdirStates \subseteq 0..(Keys - 1)
  /\ \A k \in DOMAIN readdirStates :
       readdirStates[k].it \in DOMAIN readdirStates[k].children

\* A context that no client's cookie leads to any more, which nothing frees and
\* whose key is lost, is left behind only when a client gives up its listing,
\* or when its directory is removed: not by listings that come to their end,
\* whatever changes and however clients share contexts.
OnlyGivenUpIsLeft ==
  [][Abandoned' \subseteq Abandoned
       \/ \E c \in Client : listing[c].state = "reading" /\ listing'[c].state \in {"idle", "failed"}]_vars

\* FuseReadDir: a listing that came to its end got every entry that nobody
\* touched while it went on, whatever was added, removed or replaced meanwhile,
\* if it had its context to itself: its client took whole replies, their
\* cookies stayed below the next key, and no other client was answered from
\* the context.
ListingIsComplete ==
  \A c \in Client :
    listing[c].state = "ended" /\ listing[c].own => listing[c].stayed \subseteq Names(c)

\* FuseReadDir never goes back behind the last entry it sent: between the
\* requests of a listing that has its context to itself only that one entry
\* can come again.
OnlyLastIsResent ==
  \A c \in Client : listing[c].state # "idle" /\ listing[c].own =>
    \A k \in 1..(Len(listing[c].got) - 1) :
      listing[c].got[k].index <= listing[c].got[k + 1].index

\* FuseReadDir: off is "the offset into the list of children".  A listing goes
\* on with the child behind the last one it has taken, or with that one again.
GoesOnAtOffset ==
  \A c \in Client : listing[c].state # "idle" =>
    \A k \in 1..(Len(listing[c].got) - 1) :
      LET last == listing[c].got[k].index
      IN  listing[c].got[k + 1].index \in {last, last + 1}

\* PrepareReaddir: the cookie has "the key to the readdir context".  If there
\* is a context under the key in a client's cookie, it is a copy of the
\* children of the directory that client is listing; "." tells which it is.
CookieHasKeyToContext ==
  \A c \in Client : listing[c].state = "reading" /\ listing[c].off # 0 =>
    LET key == KeyOf(listing[c].off)
    IN  key \in DOMAIN readdirStates => readdirStates[key].children[1].ino = listing[c].dir

\* FuseReadDir stops with an empty reply when it has "come to the end of the
\* directory listing": however a listing went, its client then has every entry
\* that nobody touched.
EndIsReached ==
  \A c \in Client : listing[c].state = "ended" => listing[c].stayed \subseteq Names(c)

\* Every listing that is begun, and not given up, comes to an end, also one
\* that goes on in the context of another client: while there are more keys
\* than contexts, and any two names fit into a reply.
ListingEnds ==
  \A c \in Client : listing[c].state = "reading" ~> listing[c].state # "reading"

=============================================================================
