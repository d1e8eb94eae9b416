------------------------ MODULE MCLanguageCatalogue ------------------------
(* Instance of LanguageCatalogue for TLC: b1 and b2 build the language the
   file already lists, b3 builds a new one. *)
EXTENDS LanguageCatalogue, TLC

CONSTANTS b1, b2, b3, py, c

SharedTarget == (b1 :> py) @@ (b2 :> py) @@ (b3 :> c)

OldFile == <<py>>
=============================================================================
