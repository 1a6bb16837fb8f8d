------------------------------ MODULE JobTypes ------------------------------
(***************************************************************************)
(* Which work a job stands for: the configuration of the news digest as it *)
(* is read from the environment, the job types POST /jobs accepts, and the *)
(* processor a title is dispatched to.                                     *)
(*                                                                         *)
(* Every setting of the environment is a text.  All that matters of a text *)
(* is what is left of it without the padding around it, so the texts are   *)
(* model values and Trimmed is a function on them.  Unset and blank are    *)
(* the same.  The time limit, the model name and the feed's address are    *)
(* settings like the others which no definition here depends on.           *)
(***************************************************************************)
EXTENDS Integers

CONSTANTS
    Texts,               \* the texts settings and titles are made of
    Trimmed,             \* what trim() leaves of each text
    Blank,               \* the empty text
    DefaultJobTitle,     \* DEFAULT_NEWS_DIGEST_JOB_TITLE
    DefaultMaxHeadlines, \* DEFAULT_MAX_HEADLINES; 15 in the code
    Environments         \* the environments the process may be started in

\* An environment holds numbers as parseInt reads them; 0 is unset or no number.
Environment ==
    [flag         : BOOLEAN,
     apiKey       : Texts,
     webhook      : Texts,
     jobTitle     : Texts,
     maxHeadlines : Int]

ASSUME JobTypesAssumption ==
    /\ Trimmed \in [Texts -> Texts]
    /\ \A t \in Texts : Trimmed[Trimmed[t]] = Trimmed[t]
    /\ Blank \in Texts
    /\ DefaultJobTitle \in Texts \ {Blank}
    /\ Trimmed[DefaultJobTitle] = DefaultJobTitle
    /\ DefaultMaxHeadlines \in Nat \ {0}
    /\ Environments \subseteq Environment

Config ==
    [enabled      : BOOLEAN,
     apiKey       : Texts,
     webhook      : Texts,
     jobTitle     : Texts \ {Blank},
     maxHeadlines : Nat \ {0}]

\* Mutant: the flag alone enables the digest.
IsEnabledByFlag(env) == env.flag

\* The feature flag counts only together with both secrets.
IsEnabled(env) ==
    /\ env.flag
    /\ Trimmed[env.apiKey] # Blank
    /\ Trimmed[env.webhook] # Blank

\* readNewsDigestConfig: every setting trimmed, or its default.
ReadNewsDigestConfig(env) ==
    [enabled      |-> IsEnabled(env),
     apiKey       |-> Trimmed[env.apiKey],
     webhook      |-> Trimmed[env.webhook],
     jobTitle     |-> IF Trimmed[env.jobTitle] = Blank
                      THEN DefaultJobTitle
                      ELSE Trimmed[env.jobTitle],
     maxHeadlines |-> IF env.maxHeadlines > 0
                      THEN env.maxHeadlines
                      ELSE DefaultMaxHeadlines]

\* AllowListJobTypes: the one title of the digest, enabled or not, without its
\* padding.
AllowedTypes(config) == {Trimmed[config.jobTitle]} \ {Blank}

\* isSupported: POST /jobs accepts the title with any padding.
IsSupported(config, title) == Trimmed[title] \in AllowedTypes(config)

\* createSchedulerJobProcessor and DispatchingJobProcessor: the digest gets the
\* jobs of exactly its title, DefaultJobProcessor gets every other job.
IsRouted(config, title) == config.enabled /\ title = config.jobTitle
=============================================================================
