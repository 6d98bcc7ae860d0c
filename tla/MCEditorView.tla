------------------------------- MODULE MCEditorView -------------------------------
(* Two tiles, one of them not stored at first, and two identities that can    *)
(* be placed, removed, moved and swapped.                                     *)
EXTENDS EditorView

CONSTANTS c1, c2, p, q

Tiles == [c \in {c1} |-> <<p>>]

States == {<< >>, <<p>>, <<q>>}
===================================================================================
