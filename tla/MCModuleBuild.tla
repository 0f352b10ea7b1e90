---------------------------- MODULE MCModuleBuild ----------------------------
(***************************************************************************)
(* Four modules: m imports a and b, b imports s; the build script of a     *)
(* imports s and b, that of b imports s; s comes with a WebLink.  32 and   *)
(* 64 stand for the settings; 64 is the default.                           *)
(***************************************************************************)
EXTENDS ModuleBuildInvariant, TLC

CONSTANTS m, a, b, s

FourModules == {m, a, b, s}
TreeImports == (m :> <<a, b>>) @@ (a :> <<>>) @@ (b :> <<s>>) @@ (s :> <<>>)
TreeScripts == (a :> <<s, b>>) @@ (b :> <<s>>) @@ (m :> <<>>) @@ (s :> <<>>)
=============================================================================
