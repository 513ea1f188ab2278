------------------------- MODULE MCManifestCatalog -------------------------
(* Instance of ManifestCatalog for TLC. *)
EXTENDS ManifestCatalog

CONSTANTS o1, o2, a, b, c, fa, fb, fc, plain, t1, t2, t3, edit, wizard

MCNames == {fa, fb, fc, plain, t1, t2, t3}
\* config/manifests/ holds one file and no operation adds to it
MCFiles == ({"manifests", "archive"} \X MCNames) \cup {<<"config", plain>>}
MCManifestNames == MCNames \ {plain}
MCTempName == SubSeq(<<t1, t2, t3>>, 1, MaxOps)
MCFileFor == [i \in {a, b, c} |-> CASE i = a -> fa [] i = b -> fb [] i = c -> fc]

\* c is the id of a's copy; the others are not duplicated in this instance
MCCopyIds == [i \in {a, b, c} |-> IF i = a THEN <<c>> ELSE <<>>]

MCTexts == {[id |-> b, body |-> edit, form |-> "commands", extras |-> FALSE],
            [id |-> c, body |-> edit, form |-> "kinds", extras |-> FALSE]}
MCSavePaths == {<<"manifests", fa>>, <<"config", plain>>}
MCTemplates == {[id |-> c, body |-> wizard, form |-> "commands", extras |-> FALSE]}

\* a manifest of manifests/ and one of config/manifests/, which names kinds only,
\* both with fields the loader does not read
MCInitialDisks ==
    {[f \in Files |->
        CASE f = <<"manifests", fa>> -> [id |-> a, body |-> a, form |-> "commands", extras |-> TRUE]
          [] f = <<"config", plain>> -> [id |-> b, body |-> b, form |-> "kinds", extras |-> TRUE]
          [] OTHER -> NoFile]}

\* o1 and o2 play the same part, so o2 begins only while o1 is at work; and two
\* operations show every overlap, where three are made one after the other
OverlapOfTwo ==
    /\ op[o2].at # "idle" => overlapped
    /\ overlapped => ops <= 2

=============================================================================
