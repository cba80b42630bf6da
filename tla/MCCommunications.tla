--------------------------- MODULE MCCommunications ---------------------------
(* One recipient, asked for two messages; the requests and contact points     *)
(* that the decisions tell apart.                                             *)
EXTENDS Communications, TLC

CONSTANTS rider

Asks(purpose, channels, silent, quiet, expires) ==
  [recipient |-> rider, purpose |-> purpose, priority |-> "P2", channels |-> channels,
   silent |-> silent, quiet |-> quiet, current |-> TRUE, template |-> TRUE,
   required |-> purpose = "SAFETY", deadline |-> IF purpose = "SAFETY" THEN 2 ELSE None,
   expires |-> expires]

Alert == Asks("SAFETY", {"PUSH"}, FALSE, FALSE, None)

SomeRequests ==
  {Alert,
   [Alert EXCEPT !.current = FALSE],
   Asks("SUPPORT", {"SMS", "VOICE_CALL"}, TRUE, FALSE, None),
   Asks("MARKETING", {"SMS"}, FALSE, TRUE, 1)}

SomeContacts ==
  {{[type |-> "MOBILE", verified |-> TRUE, denied |-> FALSE]},
   {[type |-> "MOBILE", verified |-> TRUE, denied |-> TRUE],
    [type |-> "LANDLINE", verified |-> FALSE, denied |-> FALSE]}}

SomeObservations ==
  {[at |-> 0, attempt |-> 1, id |-> 1, state |-> "FAILED"],
   [at |-> 1, attempt |-> 2, id |-> 2, state |-> "DELIVERED"]}

Interchangeable ==
  Permutations(Keys) \cup Permutations(ClientIds) \cup Permutations(Messages) \cup Permutations(Calls)
=============================================================================
