------------------------------ MODULE Attributes ------------------------------
(***************************************************************************)
(* The attributes of one inode and the requests that read, set or check    *)
(* them, in any order and while the inode is linked or no longer is:       *)
(* getattr, setattr, access, the requests on open files, and those that    *)
(* change contents or entries, of which only the effect on size, links and *)
(* times is here.  The clock goes forward between requests or stands still.*)
(***************************************************************************)
EXTENDS Integers, FiniteSets

CONSTANTS
  Kind,      \* bound: what the inode is: "file", "dir", "symlink" or "special"
  Mode,      \* bound: permission bits, 0..511, that clients set
  Id,        \* bound: user and group numbers
  Size,      \* bound: sizes
  MaxTime,   \* bound: the clock
  ToSet      \* bound: the sets of fields that setattr requests name

ASSUME AttributesAssumption ==
  /\ Kind \subseteq {"file", "dir", "symlink", "special"}
  /\ Mode \subseteq 0..511 /\ Size \subseteq Nat /\ 0 \in Size /\ MaxTime \in Nat
  /\ ToSet \subseteq SUBSET {"mode", "uid", "gid", "size", "atime", "mtime", "ctime"}

VARIABLES
  kind,     \* the class of the inode
  attr,     \* m_fuseEntryParam.attr
  clock,    \* CLOCK_REALTIME
  reply,    \* the reply to the last request
  request   \* history: the last setattr request: its fields and their values

vars == <<kind, attr, clock, reply, request>>

NoRequest == [to_set |-> {}]

\* Contents change: both mtime and ctime do.
Stamped(a) == [a EXCEPT !.mtime = clock, !.ctime = clock]

\* Initialize.  Sizes of directories and links count from the one they are
\* made with.
Init ==
  /\ kind \in Kind /\ clock = 0 /\ reply = "none" /\ request = NoRequest
  /\ \E m \in Mode, u \in Id, g \in Id :
       attr = [mode |-> m, uid |-> u, gid |-> g, nlink |-> 1, size |-> 0,
               atime |-> clock, mtime |-> clock, ctime |-> clock]

HasNoLinks == attr.nlink = 0

\* A request that changes nothing.
Answer(r) == reply' = r /\ request' = NoRequest /\ UNCHANGED <<kind, attr, clock>>

Tick ==
  /\ clock < MaxTime /\ clock' = clock + 1
  /\ UNCHANGED <<kind, attr, reply, request>>

-----------------------------------------------------------------------------
(* Requests that read *)

\* getattr, open, release, fsync, fsyncdir, flush and readlink.
FuseGetAttr == Answer(IF HasNoLinks THEN "ENOENT" ELSE "attr")
FuseOpen == Answer(IF HasNoLinks THEN "ENOENT" ELSE IF kind = "dir" THEN "EISDIR" ELSE "OK")
FuseRelease == Answer(IF HasNoLinks THEN "ENOENT" ELSE IF kind = "dir" THEN "EISDIR" ELSE "OK")
FuseFsync == Answer("OK")
FuseFsyncDir == Answer(IF HasNoLinks THEN "ENOENT" ELSE IF kind # "dir" THEN "ENOTDIR" ELSE "OK")
FuseFlush == Answer("OK")
FuseReadLink ==
  Answer(IF HasNoLinks THEN "ENOENT" ELSE IF kind # "symlink" THEN "EINVAL" ELSE "link")

\* A read that does not start beyond the end changes the access time.
FuseRead(off) ==
  \/ HasNoLinks /\ Answer("ENOENT")
  \/ ~HasNoLinks /\ kind # "file" /\ Answer(IF kind = "special" THEN "ENOENT" ELSE "EISDIR")
  \/ ~HasNoLinks /\ kind = "file" /\ off > attr.size /\ Answer("OK")
  \/ /\ ~HasNoLinks /\ kind = "file" /\ off <= attr.size
     /\ attr' = [attr EXCEPT !.atime = clock]
     /\ reply' = "OK" /\ request' = NoRequest /\ UNCHANGED <<kind, clock>>

-----------------------------------------------------------------------------
(* access *)

Bits(mode, shift, mask) ==
  \A b \in 0..2 : (mask \div 2^b) % 2 = 1 => (mode \div (shift * 2^b)) % 2 = 1

\* The mask is shifted from the bits of others to those of the group and on to
\* those of the owner.
ReplyAccess(mask, gid, uid) ==
  \/ mask = 0
  \/ Bits(attr.mode, 1, mask)
  \/ Bits(attr.mode, 8, mask) /\ gid = attr.gid
  \/ uid = attr.uid /\ Bits(attr.mode, 64, mask)

FuseAccess(mask, gid, uid) ==
  Answer(IF HasNoLinks THEN "ENOENT"
         ELSE IF ReplyAccess(mask, gid, uid) THEN "OK" ELSE "EACCES")

-----------------------------------------------------------------------------
(* setattr *)

\* Fault: a ctime in the request stays.
ReplySetAttrKeeps(new, to_set) ==
  [f \in DOMAIN attr |->
    IF f \in to_set THEN new[f]
    ELSE IF f \in {"mtime", "ctime"} /\ "size" \in to_set THEN clock
    ELSE IF f = "ctime" /\ "ctime" \notin to_set THEN clock ELSE attr[f]]
\* The fields asked for one by one, then the change time whatever was asked.
ReplySetAttr(new, to_set) ==
  [f \in DOMAIN attr |->
    IF f = "ctime" THEN clock
    ELSE IF f \in to_set THEN new[f]
    ELSE IF f = "mtime" /\ "size" \in to_set THEN clock ELSE attr[f]]

\* FileTruncate, which may find no space, answered with ERANGE (see
\* FuseRamFs), or no memory.
FileTruncate(size) ==
  \/ /\ attr' = Stamped([attr EXCEPT !.size = size]) /\ reply' = "attr"
  \/ /\ \/ size > attr.size /\ reply' = "ERANGE"
        \/ size \notin {0, attr.size} /\ reply' = "EINVAL"
     /\ UNCHANGED attr

\* A request for the size is a truncation and nothing else.
FuseSetAttr(new, to_set) ==
  /\ \/ HasNoLinks /\ reply' = "ENOENT" /\ UNCHANGED attr
     \/ /\ ~HasNoLinks /\ "size" \in to_set /\ kind # "file"
        /\ reply' = (IF kind = "dir" THEN "EISDIR" ELSE "EINVAL") /\ UNCHANGED attr
     \/ ~HasNoLinks /\ "size" \in to_set /\ kind = "file" /\ FileTruncate(new["size"])
     \/ /\ ~HasNoLinks /\ "size" \notin to_set
        /\ attr' = ReplySetAttr(new, to_set) /\ reply' = "attr"
  /\ request' = [to_set |-> to_set, new |-> new]
  /\ UNCHANGED <<kind, clock>>

-----------------------------------------------------------------------------
(* Requests that change contents, entries and links *)

\* WriteAndReply: the size grows or stays, the times change.
FuseWrite(end) ==
  \/ HasNoLinks /\ Answer("ENOENT")
  \/ ~HasNoLinks /\ kind # "file" /\ Answer(IF kind = "special" THEN "ENOENT" ELSE "EISDIR")
  \/ ~HasNoLinks /\ kind = "file" /\ end > attr.size /\ \E r \in {"ENOSPC", "NoBytes"} : Answer(r)
  \/ /\ ~HasNoLinks /\ kind = "file"
     /\ attr' = Stamped(IF end > attr.size THEN [attr EXCEPT !.size = end] ELSE attr)
     /\ reply' = "OK" /\ request' = NoRequest /\ UNCHANGED <<kind, clock>>

\* An entry is added, changed to another inode, or removed: the directory's
\* times change with the last two only.
DirectoryChange(size) ==
  /\ kind = "dir" /\ ~HasNoLinks
  /\ \/ /\ size > attr.size /\ attr' = [attr EXCEPT !.size = size]
     \/ /\ size <= attr.size /\ attr' = Stamped([attr EXCEPT !.size = size])
  /\ reply' = "OK" /\ request' = NoRequest
  /\ UNCHANGED <<kind, clock>>

\* Links come and go without the times being changed.
AddLink ==
  /\ ~HasNoLinks /\ kind # "dir" /\ attr.nlink < 2
  /\ attr' = [attr EXCEPT !.nlink = @ + 1]
  /\ reply' = "OK" /\ request' = NoRequest /\ UNCHANGED <<kind, clock>>
RemoveLink ==
  /\ ~HasNoLinks
  /\ attr' = [attr EXCEPT !.nlink = @ - 1]
  /\ reply' = "OK" /\ request' = NoRequest /\ UNCHANGED <<kind, clock>>

-----------------------------------------------------------------------------
\* What clients put in setattr requests.
Incoming ==
  [mode : Mode, uid : Id, gid : Id, size : Size, atime : {0, MaxTime}, mtime : {0}, ctime : {0}]

Next ==
  \/ Tick
  \/ FuseGetAttr \/ FuseOpen \/ FuseRelease \/ FuseFsync \/ FuseFsyncDir \/ FuseFlush
  \/ FuseReadLink
  \/ \E off \in Size : FuseRead(off)
  \/ \E mask \in 0..7, gid \in Id, uid \in Id : FuseAccess(mask, gid, uid)
  \/ \E new \in Incoming, to_set \in ToSet : FuseSetAttr(new, to_set)
  \/ \E end \in Size : FuseWrite(end)
  \/ \E size \in Size : DirectoryChange(size)
  \/ AddLink \/ RemoveLink

Spec == Init /\ [][Next]_vars

-----------------------------------------------------------------------------
(* Properties *)

\* No request turns the change time back, or sets it to anything but the
\* clock, whatever times a setattr request brings; and no request changes the
\* mode, the owner, the group or the modification time of an inode, or the
\* size of a file, without setting it.  (UpdateCTime takes the clock of the
\* machine, which does not go back here; entries and links are made without
\* a stamp.)
ChangesAreStamped ==
  [][/\ attr'.ctime \in {attr.ctime, clock} /\ attr'.ctime >= attr.ctime
     /\ (\/ attr'.mode # attr.mode
         \/ attr'.uid # attr.uid
         \/ attr'.gid # attr.gid
         \/ attr'.mtime # attr.mtime
         \/ kind = "file" /\ attr'.size # attr.size)
        => attr'.ctime = clock]_vars

\* FuseSetAttr: "A mask of all incoming attributes that should be applied to
\* the inode."  A request that is answered with the attributes has them
\* applied, but for the change time, which is the file system's.
AllRequestedApplied ==
  reply = "attr" => \A f \in request.to_set \ {"ctime"} : attr[f] = request.new[f]

=============================================================================
