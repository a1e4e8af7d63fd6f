------------------------------- MODULE Provider -------------------------------
(***************************************************************************)
(* The list of tiles: CProvider.cpp, with what CCredential.cpp does when it*)
(* is made and retired.                                                    *)
(*                                                                         *)
(* LogonUI's calls come one after the other, but the accounts change while *)
(* the list is made, any call on LogonUI's user array can fail, and LogonUI*)
(* may keep a tile of a list that was replaced and go on calling it.       *)
(***************************************************************************)
EXTENDS Naturals, Sequences

CONSTANTS Sids,
          NoSid, None,  \* an empty SID; no SID at all, or nothing
          UserArrays,   \* the user arrays LogonUI may pass
          MaxLists      \* bound: lists made

Entries == [local : BOOLEAN, sid : Sids \cup {NoSid}]

ASSUME ProviderAssumption ==
  /\ UserArrays \subseteq [entries : Seq(Entries), other : BOOLEAN]
  /\ NoSid \notin Sids /\ None \notin Sids \cup {NoSid} /\ None \notin UserArrays
  /\ MaxLists \in Nat

VARIABLES
  users,                  \* the SIDs that resolve to a user of this computer
  remote,                 \* the session is a remote one
  loadedRemote,           \* Configuration::isRemoteSession
  scenario, array,        \* of the provider: Configuration's scenario, _users
  tiles, ready,           \* _credentials, _credentialsReady
  pc, index, building,    \* CreateCredentials: its loop and its local list
  lists,                  \* lists made
  retired, holding,       \* tiles that are retired; that hold typed secrets
  references,             \* tiles LogonUI has references to
  always, ever            \* history: users throughout this list; at some time

world == <<users, remote>>
list == <<tiles, ready>>
loop == <<pc, index, building, lists>>
span == <<always, ever>>
objects == <<retired, holding>>
providerVars == <<world, loadedRemote, scenario, array, list, loop, span, objects, references>>

LocalSignIn == {"logon", "unlock"}
Scenarios == LocalSignIn \cup {"other"}
Tiles == [list : 1 .. MaxLists, sid : Sids \cup {None}, scenario : Scenarios]
Listed == {tiles[i] : i \in DOMAIN tiles}
SidsOf(tileList) == {tileList[i].sid : i \in DOMAIN tileList}

\* The constructor, which loads the configuration.
ProviderInit ==
  /\ users \in SUBSET Sids /\ remote \in BOOLEAN /\ loadedRemote = remote
  /\ scenario = "other" /\ array = None /\ tiles = <<>> /\ ready = FALSE
  /\ pc = "idle" /\ index = 0 /\ building = <<>> /\ lists = 0
  /\ retired = {} /\ holding = {} /\ references = {}
  /\ always = {} /\ ever = {}

-----------------------------------------------------------------------------
(* Calls that replace the list.                                             *)

ClearWithoutRetiring ==  \* mutant: the old tiles are only dropped
  tiles' = <<>> /\ ready' = FALSE /\ UNCHANGED <<span, objects>>

\* ClearCredentials: Retire resets each tile for good.
ClearCredentials ==
  /\ retired' = retired \cup Listed /\ holding' = holding \ Listed
  /\ tiles' = <<>> /\ ready' = FALSE /\ always' = {} /\ ever' = {}

ScenarioBeforeClearing(s) ==  \* mutant: a scenario that is not served returns early
  /\ pc = "idle" /\ scenario' = s
  /\ IF s \in LocalSignIn THEN ClearCredentials ELSE UNCHANGED <<list, span, objects>>
  /\ UNCHANGED <<world, loadedRemote, array, loop, references>>

\* Clears and stores first, then refuses what it does not serve.
SetUsageScenario(s) ==
  /\ pc = "idle" /\ ClearCredentials /\ scenario' = s
  /\ UNCHANGED <<world, loadedRemote, array, loop, references>>

SetUserArray(a) ==
  /\ pc = "idle" /\ ClearCredentials /\ array' = a
  /\ UNCHANGED <<world, loadedRemote, scenario, loop, references>>

\* The provider is released and another one made.
Recreate ==
  /\ pc = "idle" /\ ClearCredentials
  /\ loadedRemote' = remote /\ scenario' = "other" /\ array' = None
  /\ UNCHANGED <<world, loop, references>>

-----------------------------------------------------------------------------
(* CreateCredentials, from GetCredentialCount and GetCredentialAt.          *)

Serves == ~ loadedRemote /\ scenario \in LocalSignIn

BeginList ==
  /\ pc = "idle" /\ ~ ready /\ Serves /\ array # None /\ lists < MaxLists
  /\ pc' = "listing" /\ index' = 1 /\ building' = <<>>
  /\ always' = users /\ ever' = users
  /\ UNCHANGED <<world, loadedRemote, scenario, array, list, lists, objects, references>>

\* A tile takes the provider's scenario when it is made.
NewTile(s) == [list |-> lists + 1, sid |-> s, scenario |-> scenario]

\* Users of other providers, empty SIDs, SIDs that ResolveLocalSid does not
\* resolve, and repetitions.
Skip(e) ==
  \/ ~ e.local \/ e.sid = NoSid \/ e.sid \notin users
  \/ e.sid \in SidsOf(building)

ExamineUser ==
  /\ pc = "listing" /\ index <= Len(array.entries)
  /\ LET e == array.entries[index] IN
       building' = IF Skip(e) THEN building ELSE Append(building, NewTile(e.sid))
  /\ index' = index + 1
  /\ UNCHANGED <<world, loadedRemote, scenario, array, list, pc, lists, span,
                 objects, references>>

Return == pc' = "idle" /\ index' = 0 /\ building' = <<>>

\* CPAO_EMPTY_LOCAL asks for the tile of another user.
FinishList ==
  /\ pc = "listing" /\ index > Len(array.entries) /\ Return
  /\ tiles' = IF array.other THEN Append(building, NewTile(None)) ELSE building
  /\ ready' = TRUE /\ lists' = lists + 1
  /\ UNCHANGED <<world, loadedRemote, scenario, array, span, objects, references>>

KeepPartial == tiles' = building  \* mutant: the tiles made so far stay

\* "Never publish a partial user list."
DiscardPartial == UNCHANGED tiles

\* Any call on the user array or on a new tile fails, or memory is short.
FailList ==
  /\ pc = "listing" /\ Return /\ DiscardPartial
  /\ UNCHANGED <<world, loadedRemote, scenario, array, ready, lists, span,
                 objects, references>>

\* GetCredentialCount and GetCredentialAt for every tile of the list.
GetCredentials ==
  /\ pc = "idle" /\ ready /\ references' = references \cup Listed
  /\ UNCHANGED <<world, loadedRemote, scenario, array, list, loop, span, objects>>

-----------------------------------------------------------------------------
(* Calls on a tile LogonUI has a reference to; Credential.tla has the rest. *)

SetStringValue(t) ==
  /\ pc = "idle" /\ t \notin retired /\ holding' = holding \cup {t}
  /\ UNCHANGED <<world, loadedRemote, scenario, array, list, loop, span, retired, references>>

\* SetDeselected, Disconnect, and every result of a sign-in.
FullReset(t) ==
  /\ pc = "idle" /\ holding' = holding \ {t}
  /\ UNCHANGED <<world, loadedRemote, scenario, array, list, loop, span, retired, references>>

\* UnAdvise of the provider resets every tile it has.
UnAdvise ==
  /\ pc = "idle" /\ holding' = holding \ Listed
  /\ UNCHANGED <<world, loadedRemote, scenario, array, list, loop, span, retired, references>>

-----------------------------------------------------------------------------
(* The world: an account is made, deleted or does not resolve; the session  *)
(* is taken over by or from a remote desktop.                               *)

ChangeUsers ==
  /\ \E s \in Sids : users' = (users \ {s}) \cup ({s} \ users)
  /\ IF pc = "listing" THEN always' = always \cap users' /\ ever' = ever \cup users'
                       ELSE UNCHANGED <<always, ever>>
  /\ UNCHANGED <<remote, loadedRemote, scenario, array, list, pc, index, building, lists,
                 objects, references>>

ChangeSession ==
  /\ remote' = ~ remote
  /\ UNCHANGED <<users, loadedRemote, scenario, array, list, loop, span, objects, references>>

ProviderNext ==
  \/ \E s \in Scenarios : SetUsageScenario(s)
  \/ \E a \in UserArrays : SetUserArray(a)
  \/ Recreate \/ BeginList \/ ExamineUser \/ FinishList \/ FailList
  \/ GetCredentials
  \/ \E t \in references : SetStringValue(t) \/ FullReset(t)
  \/ UnAdvise \/ ChangeUsers \/ ChangeSession

-----------------------------------------------------------------------------
(* Properties.                                                              *)

ProviderTypeOK ==
  /\ users \subseteq Sids /\ remote \in BOOLEAN /\ loadedRemote \in BOOLEAN
  /\ scenario \in Scenarios /\ array \in UserArrays \cup {None}
  /\ tiles \in Seq(Tiles) /\ ready \in BOOLEAN
  /\ pc \in {"idle", "listing"} /\ index \in Nat /\ building \in Seq(Tiles)
  /\ lists \in 0 .. MaxLists
  /\ retired \subseteq Tiles /\ holding \subseteq Tiles /\ references \subseteq Tiles
  /\ always \subseteq Sids /\ ever \subseteq Sids

\* Whom the array asks for.
Asked == {array.entries[i].sid : i \in {j \in DOMAIN array.entries : array.entries[j].local}}

\* "Commit only a complete enumeration" (CreateCredentials): whatever fails, and
\* whatever is made or deleted meanwhile, a list that LogonUI can see has one
\* tile for every listed user of this computer, none for somebody who was no
\* user while it was made, and the tile for another user if it was asked for.
PublishedListIsComplete ==
  tiles # <<>> \/ ready =>
    LET named == SidsOf(tiles) \ {None} IN
      /\ ready /\ array # None
      /\ Asked \cap always \subseteq named /\ named \subseteq Asked \cap ever
      /\ None \in SidsOf(tiles) <=> array.other
      /\ \A i, j \in DOMAIN tiles : tiles[i].sid = tiles[j].sid => i = j

\* A sign-in handed to Windows comes from a tile of the present list, made for
\* the scenario LogonUI asked this provider for last, also when LogonUI calls a
\* tile it kept from before a change of users, of scenario or of provider.
MaySubmit(t) == t \notin retired /\ t \in holding

SubmittedIsCurrent ==
  \A t \in references : MaySubmit(t) => t \in Listed /\ t.scenario = scenario

\* What was typed is held by tiles of the present list only.
ReplacedTilesHoldNothing == holding \subseteq Listed
=============================================================================
