----------------------------- MODULE MCInstaller ------------------------------
(* A tree of depth three with a link, files above and below; three runs.   *)
EXTENDS Installer, TLC

CONSTANTS root, dir, subdir, file, deepfile, link

MCParent == dir :> root @@ file :> root @@ subdir :> dir @@ link :> dir
             @@ deepfile :> subdir

(* copytree: "this function will not fail if copying to an existing        *)
(* directory".  An update that is installed can be installed again: none   *)
(* of its entries is in the way of its own copy.                           *)
InstallsAgain == installs >= 1 => \A n \in Entries : Copyable(n)
==============================================================================
