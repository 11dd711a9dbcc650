------------------------------ MODULE MCSqlFile ------------------------------
(* One letter is enough: words differ by their lengths.                    *)

MCCharacters == {"a", " ", ";", "\n"}
=============================================================================
