---------------------------- MODULE MCNxInstall ----------------------------
(* NxInstall for TLC: two APKs and a bundle as payloads, one extracted path  *)
(* that a hook rewrites in place, one path that another hook creates.        *)
EXTENDS NxInstall

CONSTANTS apk, rebuilt, bundle

\* The rebuilt APK has the size of the other: it is taken for it.
MCPayloads == {apk, rebuilt, bundle}
MCFingerprint == [p \in MCPayloads |-> IF p = rebuilt THEN apk ELSE p]
\* What the hooks of the first release make of the bundle, the second refuses.
MCAccepts == ({1, 2} \X MCPayloads \X {0, 1, 2}) \ {<<2, bundle, 1>>}
\* Between two runs of the launcher the player forces an extraction without UI.
MCOptions == <<{<<FALSE, TRUE>>}, {<<TRUE, FALSE>>}, {<<FALSE, TRUE>>}>>
MCTarget == <<2, 1>>

ASSUME CompleteRecipe == Complete
=============================================================================
