------------------------------ MODULE MCIngest ------------------------------
(***************************************************************************)
(* A small instance of Ingest for TLC: PDFs of up to two pages with white  *)
(* space of each kind at their ends and between their words, and texts     *)
(* with a character that a cut can break.                                  *)
(***************************************************************************)
EXTENDS Ingest

FirstPages == { << "a" >>, << Space, "a", Space >>, << "a", NewLine, Space, "b" >>, NoBreakSpace }
LastPages == { << "c" >>, << "c" >> \o Bullet, NoBreakSpace \o << "c", Space >> }

MCPdfs ==
    { << p >> : p \in FirstPages } \cup { << p, q >> : p \in FirstPages, q \in LastPages }

MCFiles == { << >>, << Space >>, << "d" >> \o Bullet, << "d" >> \o NoBreakSpace \o << "e" >> }
=============================================================================
