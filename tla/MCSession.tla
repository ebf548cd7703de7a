----------------------------- MODULE MCSession -----------------------------
(* A server with a root, a folder with two children and a string-id leaf,  *)
(* and the same server after the folder was emptied and the leaf removed.  *)
EXTENDS Session, TLC

CONSTANTS objects, folder, tag, null

MCNode == {objects, folder, tag}
MCStringIds == {folder, tag}

Full == (objects :> <<folder>>) @@ (folder :> <<tag, objects>>) @@ (tag :> << >>)
Reduced == (objects :> <<folder, folder>>) @@ (folder :> << >>)

MCSpaces == {Full, Reduced}

MCEndpoint == {"plc", "typo"}
MCListening == {"plc"}
=============================================================================
