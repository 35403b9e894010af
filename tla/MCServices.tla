----------------------------- MODULE MCServices -----------------------------
(* Small values for the parts: one entry of the search cache for "WIA" and
   "wia", one user who submits the forms, two labels that exclude each other
   and two values of a custom property, three users of the realm and two
   streams of the generator. *)
EXTENDS Services

CONSTANTS requester, low, high, yes, no, alice, bob, carol, persona, wia

MCKey(q) == IF q = "WIA" THEN "wia" ELSE q
MCRequestedBy == [f \in Forms |-> requester]
MCExclusive == {{low, high}, {yes, no}}
MCProperties == {{yes, no}}
MCRealmOrder == <<alice, bob, carol>>
MCOrder == <<persona, wia>>
=============================================================================
