----------------------------- MODULE MCOasTools -----------------------------
(***************************************************************************)
(* OasTools with the read-only rep and the supervisor.                     *)
(***************************************************************************)
EXTENDS OasTools

MCUsers == {"alice", "bob"}
MCEntitlements == [alice |-> {"customers:read"}, bob |-> Scopes]

(* The deployed document, and the same operations without their ids. *)
MCDocuments == {AcmeApi, Anonymous(AcmeApi)}

(* A customer, nothing, a dot segment, and a text with a slash in it. *)
MCCustTexts == {<<"C-1024">>, <<"">>, <<"..">>, <<"C-1024", "orders">>}
=============================================================================
