------------------------------ MODULE SendRules ------------------------------
(***************************************************************************)
(* The decisions of sending over the texts of Templates: what is blank and *)
(* what is previewed is what its rules make of a text.                     *)
(***************************************************************************)
EXTENDS Templates, Integers

CONSTANTS Null, MinLead, FarFuture, MaxAhead \* of SendDecisions

Blank(text) == TrimSpace(text) = <<>>

SampleContact == [c \in ContactColumns \cup {"plan", "email"} |-> <<"x">>]
Rendered(t) == IF t = Null THEN Null ELSE BuildPreview(t, SampleContact)

INSTANCE SendDecisions WITH IsBlank <- Blank

(* compose.ts: of a ready campaign a message m is composed for every       *)
(* address, unless its subject is empty for that contact.                  *)
ReadyComposes(p, contact, m) ==
  ~m.ok => m.reason = "render_failed" /\ TrimSpace(BuildPreview(p.template, contact).subject) = <<>>
=============================================================================
