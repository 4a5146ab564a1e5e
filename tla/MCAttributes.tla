---------------------------- MODULE MCAttributes ----------------------------
(* Instances of Attributes for TLC. *)
EXTENDS Attributes

\* chmod, chown, utimes with and without times, truncate, and truncate with
\* the times or the mode.
Requests ==
  {{"mode", "ctime"}, {"uid", "gid"}, {"atime", "mtime", "ctime"}, {"size"},
   {"size", "mtime", "ctime"}, {"size", "mode"}}

\* Requests and replies leave no trace but in AllRequestedApplied.
StateView == <<kind, attr, clock>>
=============================================================================
