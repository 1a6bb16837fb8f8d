---------------------------- MODULE MCNewsDigest ----------------------------
(***************************************************************************)
(* A small instance of NewsDigest for TLC.                                 *)
(***************************************************************************)
EXTENDS NewsDigest

CONSTANTS news, padded, other

\* The padded title is the one a client may send and only trimming recognizes.
MCTexts == {news, padded, other, Blank}
MCTrimmed == [t \in MCTexts |-> IF t = padded THEN news ELSE t]

\* The flag without the secrets, a blank secret, and two complete settings, one
\* of them with the default limit and a title of its own.
MCEnvironments ==
    {[flag |-> TRUE, apiKey |-> Blank, webhook |-> other,
      jobTitle |-> Blank, maxHeadlines |-> 1],
     [flag |-> TRUE, apiKey |-> other, webhook |-> other,
      jobTitle |-> Blank, maxHeadlines |-> 1],
     [flag |-> TRUE, apiKey |-> other, webhook |-> padded,
      jobTitle |-> padded, maxHeadlines |-> -1],
     [flag |-> FALSE, apiKey |-> other, webhook |-> other,
      jobTitle |-> other, maxHeadlines |-> 0]}

\* Feeds with no item, with nothing but an untitled item, and with more items
\* than the limit; answers with no group, with no usable group, and with two
\* usable groups among three.
MCFeeds == {<<>>, <<Blank>>, <<news, Blank, other, other>>}
MCGroupings ==
    {<<>>,
     <<[topic |-> Blank, headlines |-> 0]>>,
     <<[topic |-> Blank, headlines |-> 0], [topic |-> news, headlines |-> 0],
       [topic |-> Blank, headlines |-> 1]>>}
=============================================================================
