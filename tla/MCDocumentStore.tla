--------------------------- MODULE MCDocumentStore ---------------------------
(* The instance of DocumentStore for TLC.                                    *)
EXTENDS DocumentStore
=============================================================================
