------------------------------- MODULE LogonUi -------------------------------
(***************************************************************************)
(* LogonUI with this provider, the filter of this product and another      *)
(* installed filter: CCredentialProviderFilter.cpp on top of Provider.     *)
(*                                                                         *)
(* LogonUI asks the filters one after the other, in an order nobody        *)
(* chooses, which providers to leave in; they share one array of answers.  *)
(***************************************************************************)
EXTENDS Provider

CONSTANTS Others,  \* the other credential providers
          Ours

ASSUME FilterAssumption == Ours \notin Others /\ Others # {}

VARIABLES
  enableFilter,  \* the registry value
  signIn,        \* they are asked about logon or unlock, or something else
  allowed,       \* the shared array
  todo,          \* filters still to be asked
  denied,        \* history: what the other filter denied
  found          \* history: what this filter found: the session, and the policy

filterVars == <<enableFilter, signIn, allowed, todo, denied, found>>
vars == <<providerVars, filterVars>>

Providers == Others \cup {Ours}
Filters == {"ours", "another"}

Init ==
  /\ ProviderInit
  /\ enableFilter \in BOOLEAN /\ signIn = FALSE /\ allowed = Providers /\ todo = {}
  /\ denied = {} /\ found = [remote |-> remote, enabled |-> FALSE]

\* LogonUI asks which providers to show.
BeginFiltering ==
  /\ todo = {} /\ todo' = Filters
  /\ signIn' \in BOOLEAN /\ allowed' = Providers /\ denied' = {}
  /\ UNCHANGED <<providerVars, enableFilter, found>>

\* RegistryReader::GetBool: a value that cannot be read is FALSE.
GetBool(value) == {value, FALSE}

RestoreToo(enabled) == IF enabled THEN {Ours} ELSE Others  \* mutant: also writes TRUE

\* "Only add a denial."
Keep(enabled) == allowed \cap (IF enabled THEN {Ours} ELSE Others)

RemoteToo == ~ signIn  \* mutant: remote sessions are filtered too

OutOfScope == ~ signIn \/ remote

Filter ==
  /\ "ours" \in todo /\ todo' = todo \ {"ours"}
  /\ IF OutOfScope
       THEN UNCHANGED allowed /\ found' = [remote |-> remote, enabled |-> FALSE]
       ELSE \E enabled \in GetBool(enableFilter) :
              /\ allowed' = Keep(enabled)
              /\ found' = [remote |-> remote, enabled |-> enabled]
  /\ UNCHANGED <<providerVars, enableFilter, signIn, denied>>

AnotherFilter ==
  /\ "another" \in todo /\ todo' = todo \ {"another"}
  /\ denied' \in SUBSET Providers /\ allowed' = allowed \ denied'
  /\ UNCHANGED <<providerVars, enableFilter, signIn, found>>

\* The store publishes another policy.
Publish ==
  /\ enableFilter' = ~ enableFilter
  /\ UNCHANGED <<providerVars, signIn, allowed, todo, denied, found>>

Next ==
  \/ BeginFiltering
  \/ Filter \/ AnotherFilter \/ Publish
  \/ ProviderNext /\ UNCHANGED filterVars

Spec == Init /\ [][Next]_vars

-----------------------------------------------------------------------------
(* Properties.                                                              *)

TypeOK ==
  /\ ProviderTypeOK
  /\ enableFilter \in BOOLEAN /\ signIn \in BOOLEAN /\ allowed \subseteq Providers
  /\ todo \subseteq Filters /\ denied \subseteq Providers
  /\ found \in [remote : BOOLEAN, enabled : BOOLEAN]

\* "Only add a denial; never restore TRUE after another filter has denied a
\* provider" (Filter): whatever the order of the filters, what the other one
\* denied stays denied, and with the policy in force no other provider is left.
FilterOnlyDenies ==
  /\ allowed \cap denied = {}
  /\ todo = {} /\ found.enabled /\ signIn => allowed \subseteq {Ours}

\* The filter and the provider look at the session each for themselves (Filter,
\* CProvider).  There is one way in which they leave nobody to sign in with,
\* without the other filter's doing: the session was local when the filter denied
\* the others, and remote when the provider was made, so it was taken over
\* between these two looks.  Nothing in the code rules that out, and it lasts
\* until LogonUI makes the provider or asks the filters again.
NobodyOnlyAfterTakeover ==
  todo = {} /\ denied = {} /\ (\A p \in allowed : p = Ours /\ loadedRemote /\ signIn) =>
    ~ found.remote /\ loadedRemote /\ found.enabled
=============================================================================
