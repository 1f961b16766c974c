---------------------------- MODULE MCDirectTools ----------------------------
(* DirectTools with two files and a directory. *)
EXTENDS DirectTools, TLC

CONSTANTS pa, pb, pd, o1, o2

TwoFiles == {pa, pb}
FilesAndFolder == {pa, pb, pd}
TwoOps == {o1, o2}
OneFolder == {pd}
Second == {o2}

Ask(t, ps, f, e) == [tool |-> t, paths |-> ps, force |-> f, expected |-> e]
AllOf(tools, p) == {Ask(t, {p}, TRUE, Anything) : t \in tools}

(* Every tool on one path, a patch of two, and guarded or careful writes. *)
Anyhow ==
  AllOf(Tools \ {"mkdir"}, pa)
    \cup {Ask("patch", TwoFiles, TRUE, Anything),
          Ask("write", {pa}, TRUE, <<Old>>), Ask("replace", {pa}, TRUE, <<Old>>),
          Ask("write", {pa}, FALSE, Anything), Ask("exec", {pa}, FALSE, Anything),
          Ask("mkdir", {pd}, TRUE, Anything), Ask("delete", {pd}, TRUE, Anything),
          Ask("restore_deleted", {pd}, FALSE, Anything)}
(* What sets the scene for another operation: texts, backups and trash. *)
Before == AllOf({"write", "append", "delete", "patch", "restore_deleted"}, pa)
            \cup AllOf({"mkdir", "delete"}, pd)
AnyTwo == [o \in TwoOps |-> IF o = o1 THEN Before ELSE Anyhow]
==============================================================================
