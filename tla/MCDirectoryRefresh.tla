------------------------ MODULE MCDirectoryRefresh ------------------------
(* Two saves of this tab among two of other users.                         *)
EXTENDS DirectoryRefresh
=============================================================================
