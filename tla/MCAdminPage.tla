----------------------------- MODULE MCAdminPage -----------------------------
(***************************************************************************)
(* A small instance of AdminPage for TLC.                                  *)
(***************************************************************************)
EXTENDS AdminPage

CONSTANTS digest, other

\* One search text, which only one of the titles contains.
MCSearchTexts == {{digest}}

SeedJob(status, title) == [status |-> status, retryCount |-> 0, title |-> title]

MCSeeds == {<<SeedJob("failed", digest), SeedJob("processing", other)>>}

MCBudget(filter, dialog, others, faults, open) ==
    [filter |-> filter, dialog |-> dialog, others |-> others,
     faults |-> faults, polls |-> 1, writes |-> open]

\* Filters against a list that changes and a request that fails; a long use of
\* the dialogs; a shorter one against the scheduler or another client; and with
\* a request that fails, with and without filters.
MCBudgets == {MCBudget(2, 0, 1, 1, 1),
              MCBudget(0, 6, 0, 0, 2),
              MCBudget(0, 4, 1, 0, 2),
              MCBudget(0, 4, 0, 1, 1),
              MCBudget(1, 2, 0, 1, 1)}
=============================================================================
