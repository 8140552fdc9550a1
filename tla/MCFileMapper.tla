---------------------------- MODULE MCFileMapper ----------------------------
(* An instance of FileMapper: the name of one directory begins like that   *)
(* of another.                                                             *)
EXTENDS FileMapper

LookAlikeNames == {<<"ab", "a">>}
=============================================================================
