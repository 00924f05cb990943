------------------------------- MODULE MCBuild -------------------------------
(***************************************************************************)
(* Two builds whose scripts have different names, since their names hold   *)
(* the hash of their content, and one file that public/ has as well.       *)
(***************************************************************************)
EXTENDS Build

CONSTANTS html, favicon, manifest, script1, script2

MCPublicFiles == {html, favicon, manifest}
MCAssets == <<{html, script1, manifest}, {html, script2, manifest}>>

=============================================================================
