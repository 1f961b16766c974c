-------------------------- MODULE MCActionExecution --------------------------
(* ActionExecution with a runner that meets faults, and one that does not. *)
EXTENDS ActionExecution, TLC

CONSTANTS r1, r2, fa, fb, fc, fd

TwoRunners == {r1, r2}
Faulty == {r1}
FourFiles == {fa, fb, fc, fd}
(* fc is what commands change; the other files share a directory. *)
FolderOf == [x \in FourFiles |-> IF x = fc THEN "." ELSE "sub"]

On(k, x) == [kind |-> k, file |-> x]
StepsOn(kinds, files) == {On(k, x) : k \in kinds, x \in files}
Command == On("command", fc)
UpTo(n, steps) == UNION {[1..k -> steps] : k \in 1..n}

(* Action bundles of up to three steps, patch bundles, command bundles; fa  *)
(* and fb are alike, so no bundle starts with fb.                          *)
AllPrograms ==
  {p \in UpTo(2, StepsOn(FileKinds, {fa, fb}) \cup {Command}) : p[1].file # fb}
    \cup {<<On("apply_patch", fa)>>}
    \cup {<<Command, On("append_file", fa), On("write_file", fb)>>,
           <<On("append_file", fc), Command, On("replace_text", fc)>>,
           <<Command, On("overwrite", fc)>>}
(* The second bundle is applied if its file exists; if it does not, the     *)
(* second step fails and the new file is removed again.                    *)
OtherPrograms == {<<On("append_file", fd), On("replace_text", fd)>>}
ApartPrograms == [r \in TwoRunners |-> IF r = r1 THEN AllPrograms ELSE OtherPrograms]

(* Two bundles that change the same file: see RollbackOnlyOwn. *)
SharedPrograms ==
  [r \in TwoRunners |-> {<<On("append_file", fa), Command>>, <<On("append_file", fa)>>}]
==============================================================================
