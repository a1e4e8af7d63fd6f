---------------------------- MODULE LogonUiProofs ----------------------------
(***************************************************************************)
(* Proofs about the provider's list of tiles and the filter, for any       *)
(* users, user arrays and providers.                                       *)
(***************************************************************************)
EXTENDS LogonUi, TLAPS

\* The users of the first n entries of the array.
AskedBefore(n) ==
  {array.entries[i].sid : i \in {j \in DOMAIN array.entries : j < n /\ array.entries[j].local}}

\* One tile for every user that was there all the time, none for one that
\* never was, all made for the scenario of the provider.
Faithful(list_, upto) ==
  /\ AskedBefore(upto) \cap always \subseteq SidsOf(list_)
  /\ SidsOf(list_) \subseteq AskedBefore(upto) \cap ever
  /\ \A i, j \in DOMAIN list_ : list_[i].sid = list_[j].sid => i = j
  /\ \A i \in DOMAIN list_ : list_[i].scenario = scenario

\* A list is published when it is complete; while one is made nothing is.
ListInv ==
  /\ ~ ready => tiles = <<>>
  /\ pc = "listing" =>
       /\ ~ ready /\ array # None /\ lists < MaxLists
       /\ index \in 1 .. Len(array.entries) + 1
       /\ always \subseteq users /\ users \subseteq ever
       /\ Faithful(building, index)

\* A tile LogonUI has is in the list or retired for good.
TileInv ==
  /\ references \subseteq Listed \cup retired
  /\ holding \subseteq Listed
  /\ \A t \in Listed : t.scenario = scenario

\* What the filters have made of the array so far.
FilterInv ==
  /\ enableFilter \in BOOLEAN /\ signIn \in BOOLEAN /\ allowed \subseteq Providers
  /\ todo \subseteq Filters /\ denied \subseteq Providers
  /\ found \in [remote : BOOLEAN, enabled : BOOLEAN]
  /\ allowed \cap denied = {}
  /\ "another" \in todo => denied = {}
  /\ "ours" \notin todo /\ found.enabled /\ signIn => allowed \subseteq {Ours}
  /\ denied = {} =>
       \/ allowed = Providers
       \/ /\ "ours" \notin todo /\ ~ found.remote
          /\ allowed = Others \/ (allowed = {Ours} /\ found.enabled)

ProviderInv == ProviderTypeOK /\ ListInv /\ PublishedListIsComplete /\ TileInv

IInv == ProviderInv /\ FilterInv

-----------------------------------------------------------------------------
(* Lists of tiles.                                                          *)

LEMMA EmptyList ==
  SidsOf(<<>>) = {} /\ <<>> \in Seq(Tiles) /\ DOMAIN <<>> = {}
BY DEF SidsOf

\* What a tile at the end adds.
LEMMA OneMoreTile ==
  ASSUME NEW s \in Seq(Tiles), NEW t \in Tiles
  PROVE  /\ Append(s, t) \in Seq(Tiles)
         /\ SidsOf(Append(s, t)) = SidsOf(s) \cup {t.sid}
         /\ DOMAIN Append(s, t) = DOMAIN s \cup {Len(s) + 1}
         /\ \A i \in DOMAIN s : Append(s, t)[i] = s[i] /\ i # Len(s) + 1
         /\ Append(s, t)[Len(s) + 1] = t
<1>1. /\ Append(s, t) \in Seq(Tiles)
      /\ DOMAIN Append(s, t) = DOMAIN s \cup {Len(s) + 1}
      /\ \A i \in DOMAIN s : Append(s, t)[i] = s[i] /\ i # Len(s) + 1
      /\ Append(s, t)[Len(s) + 1] = t
  OBVIOUS
<1>2. SidsOf(Append(s, t)) = SidsOf(s) \cup {t.sid}
  BY <1>1 DEF SidsOf
<1>3. QED  BY <1>1, <1>2

\* The tile a list gets for a user, or for another user.
LEMMA NewTileType ==
  ASSUME ProviderTypeOK, lists < MaxLists, NEW s \in Sids \cup {None}
  PROVE  NewTile(s) \in Tiles /\ NewTile(s).sid = s /\ NewTile(s).scenario = scenario
BY ProviderAssumption DEF ProviderTypeOK, NewTile, Tiles

\* The entries of the array.
LEMMA ArrayType ==
  ASSUME ProviderTypeOK, array # None
  PROVE  /\ array.entries \in Seq(Entries)
         /\ \A i \in DOMAIN array.entries :
              array.entries[i].local \in BOOLEAN /\ array.entries[i].sid \in Sids \cup {NoSid}
<1>1. array.entries \in Seq(Entries)
  BY ProviderAssumption DEF ProviderTypeOK
<1>2. \A i \in DOMAIN array.entries : array.entries[i] \in Entries
  BY <1>1
<1>3. QED  BY <1>1, <1>2 DEF Entries

-----------------------------------------------------------------------------
(* The steps of the provider.                                               *)

LEMMA InitInv == Init => IInv
<1> SUFFICES ASSUME Init PROVE IInv
  OBVIOUS
<1>1. ProviderTypeOK /\ ListInv /\ TileInv
  <2>1. tiles \in Seq(Tiles) /\ building \in Seq(Tiles) /\ Listed = {}
    BY EmptyList DEF Init, ProviderInit, Listed
  <2>2. ProviderTypeOK
    <3>1. /\ users \subseteq Sids /\ remote \in BOOLEAN /\ loadedRemote \in BOOLEAN
          /\ array \in UserArrays \cup {None} /\ scenario \in Scenarios /\ ready \in BOOLEAN
      BY DEF Init, ProviderInit, Scenarios
    <3>2. pc \in {"idle", "listing"} /\ index \in Nat /\ lists \in 0 .. MaxLists
      BY ProviderAssumption DEF Init, ProviderInit
    <3>3. QED  BY <2>1, <3>1, <3>2 DEF Init, ProviderInit, ProviderTypeOK
  <2>3. QED  BY <2>1, <2>2 DEF Init, ProviderInit, ListInv, TileInv
<1>2. PublishedListIsComplete
  BY DEF Init, ProviderInit, PublishedListIsComplete
<1>3. FilterInv
  BY DEF Init, ProviderInit, FilterInv, Providers, Filters
<1>4. QED  BY <1>1, <1>2, <1>3 DEF IInv, ProviderInv

\* Whatever replaces the list: every tile of it is retired and holds nothing.
LEMMA ReplacingStep ==
  ASSUME ProviderInv, pc = "idle", ClearCredentials, UNCHANGED <<loop, references>>,
         users' \subseteq Sids, remote' \in BOOLEAN, loadedRemote' \in BOOLEAN,
         scenario' \in Scenarios, array' \in UserArrays \cup {None}
  PROVE  ProviderInv'
<1>1. ProviderTypeOK'
  <2>1. tiles' \in Seq(Tiles)
    BY EmptyList DEF ClearCredentials
  <2>2. retired' \subseteq Tiles
    BY DEF ProviderInv, ProviderTypeOK, ClearCredentials, Listed
  <2>3. QED
    BY <2>1, <2>2 DEF ProviderInv, ProviderTypeOK, ClearCredentials, loop
<1>2. ListInv' /\ PublishedListIsComplete'
  BY DEF ClearCredentials, loop, ListInv, PublishedListIsComplete
<1>3. TileInv'
  BY EmptyList DEF ProviderInv, TileInv, ClearCredentials, Listed
<1>4. QED  BY <1>1, <1>2, <1>3 DEF ProviderInv

LEMMA BeginListStep ==
  ASSUME ProviderInv, BeginList
  PROVE  ProviderInv'
<1>1. ProviderTypeOK'
  BY EmptyList DEF ProviderInv, ProviderTypeOK, BeginList, world, list, objects
<1>2. ListInv'
  <2>1. array.entries \in Seq(Entries) /\ Len(array.entries) \in Nat
    BY ArrayType DEF ProviderInv, BeginList
  <2>2. Faithful(<<>>, 1)'
    <3>1. AskedBefore(1)' = {}
      BY <2>1 DEF AskedBefore, BeginList
    <3>2. QED  BY <3>1, EmptyList DEF Faithful, SidsOf
  <2>3. QED  BY <2>1, <2>2 DEF ProviderInv, ListInv, BeginList, world, list, objects
<1>3. PublishedListIsComplete'
  BY DEF ProviderInv, ListInv, PublishedListIsComplete, BeginList, list
<1>4. TileInv'
  BY DEF ProviderInv, TileInv, BeginList, list, objects, Listed
<1>5. QED  BY <1>1, <1>2, <1>3, <1>4 DEF ProviderInv

\* One user more of the array.
LEMMA ExamineUserStep ==
  ASSUME ProviderInv, ExamineUser
  PROVE  ProviderInv'
<1> DEFINE e == array.entries[index]
<1> USE DEF ProviderInv
<1>1. /\ array # None /\ array.entries \in Seq(Entries) /\ index \in DOMAIN array.entries
      /\ e.local \in BOOLEAN /\ e.sid \in Sids \cup {NoSid} /\ index + 1 \in Nat
  BY ArrayType DEF ExamineUser, ListInv
<1>2. AskedBefore(index + 1) =
        AskedBefore(index) \cup (IF e.local THEN {e.sid} ELSE {})
  BY <1>1 DEF AskedBefore
<1>3. building' \in Seq(Tiles) /\ Faithful(building', index + 1)
  <2>1. CASE Skip(e)
    <3>1. e.local /\ e.sid \in always => e.sid \in SidsOf(building)
      BY <2>1, <1>1, ProviderAssumption DEF Skip, ListInv, ProviderTypeOK, ExamineUser
    <3>2. building' = building
      BY <2>1 DEF ExamineUser
    <3>3. Faithful(building, index + 1)
      BY <3>1, <1>2 DEF ListInv, Faithful, ExamineUser
    <3>4. QED  BY <3>2, <3>3 DEF ProviderTypeOK
  <2>2. CASE ~ Skip(e)
    <3>1. /\ building' = Append(building, NewTile(e.sid))
          /\ e.local /\ e.sid \in Sids /\ e.sid \in users /\ e.sid \notin SidsOf(building)
      BY <2>2, <1>1 DEF Skip, ExamineUser
    <3>2. /\ NewTile(e.sid) \in Tiles /\ NewTile(e.sid).sid = e.sid
          /\ NewTile(e.sid).scenario = scenario
      BY <3>1, NewTileType DEF ListInv, ExamineUser
    <3>3. building \in Seq(Tiles)
      BY DEF ProviderTypeOK
    <3>4. Faithful(building, index) /\ users \subseteq ever
      BY DEF ListInv, ExamineUser
    <3>5. \A i \in DOMAIN building : building[i].sid # e.sid
      BY <3>1 DEF SidsOf
    <3> HIDE DEF e
    <3>6. /\ building' \in Seq(Tiles)
          /\ SidsOf(building') = SidsOf(building) \cup {e.sid}
          /\ DOMAIN building' = DOMAIN building \cup {Len(building) + 1}
          /\ \A i \in DOMAIN building : building'[i] = building[i] /\ i # Len(building) + 1
          /\ building'[Len(building) + 1] = NewTile(e.sid)
      BY <3>1, <3>2, <3>3, OneMoreTile
    <3>7. QED  BY <3>1, <3>2, <3>4, <3>5, <3>6, <1>2 DEF Faithful
  <2>3. QED  BY <2>1, <2>2
<1>4. ListInv'
  <2>1. Faithful(building, index)'
    BY <1>3 DEF ExamineUser, Faithful, AskedBefore, span
  <2>2. index' \in 1 .. Len(array.entries) + 1
    BY <1>1 DEF ExamineUser
  <2>3. QED  BY <2>1, <2>2 DEF ListInv, ExamineUser, world, list, span
<1>5. ProviderTypeOK'
  BY <1>1, <1>3 DEF ProviderTypeOK, ExamineUser, world, list, span, objects
<1>6. PublishedListIsComplete' /\ TileInv'
  BY DEF PublishedListIsComplete, ListInv, TileInv, ExamineUser, list, objects, Listed
<1>7. QED  BY <1>4, <1>5, <1>6

LEMMA FinishListStep ==
  ASSUME ProviderInv, FinishList
  PROVE  ProviderInv'
<1> USE DEF ProviderInv
<1>1. /\ array # None /\ array.entries \in Seq(Entries)
      /\ index = Len(array.entries) + 1 /\ Faithful(building, index)
      /\ building \in Seq(Tiles) /\ lists < MaxLists /\ tiles = <<>>
  <2>1. pc = "listing" /\ index > Len(array.entries)
    BY DEF FinishList
  <2>2. /\ array # None /\ index \in 1 .. Len(array.entries) + 1
        /\ Faithful(building, index) /\ lists < MaxLists /\ tiles = <<>>
    BY <2>1 DEF ListInv
  <2>3. array.entries \in Seq(Entries)
    BY <2>2, ArrayType DEF ProviderTypeOK
  <2>4. Len(array.entries) \in Nat
    BY <2>3
  <2>5. index = Len(array.entries) + 1
    BY <2>1, <2>2, <2>4
  <2>6. QED  BY <2>2, <2>3, <2>5 DEF ProviderTypeOK
<1>2. AskedBefore(index) = Asked
  BY <1>1 DEF AskedBefore, Asked
<1>3. None \notin SidsOf(building)
  BY <1>1, ProviderAssumption DEF Faithful, ProviderTypeOK
<1>4. NewTile(None) \in Tiles /\ NewTile(None).sid = None /\ NewTile(None).scenario = scenario
  BY <1>1, NewTileType
<1>5. /\ tiles' \in Seq(Tiles)
      /\ SidsOf(tiles') = SidsOf(building) \cup (IF array.other THEN {None} ELSE {})
      /\ \A i, j \in DOMAIN tiles' : tiles'[i].sid = tiles'[j].sid => i = j
      /\ \A i \in DOMAIN tiles' : tiles'[i].scenario = scenario
  <2>1. CASE array.other
    <3>1. tiles' = Append(building, NewTile(None))
      BY <2>1 DEF FinishList
    <3>2. /\ tiles' \in Seq(Tiles)
          /\ SidsOf(tiles') = SidsOf(building) \cup {None}
          /\ DOMAIN tiles' = DOMAIN building \cup {Len(building) + 1}
          /\ \A i \in DOMAIN building : tiles'[i] = building[i] /\ i # Len(building) + 1
          /\ tiles'[Len(building) + 1] = NewTile(None)
      BY <3>1, <1>1, <1>4, OneMoreTile
    <3>3. \A i \in DOMAIN building : building[i].sid # None
      BY <1>3 DEF SidsOf
    <3>4. QED  BY <2>1, <3>2, <3>3, <1>1, <1>4 DEF Faithful
  <2>2. CASE ~ array.other
    BY <2>2, <1>1 DEF FinishList, Faithful
  <2>3. QED  BY <2>1, <2>2
<1>6. array' = array /\ always' = always /\ ever' = ever /\ ready' /\ pc' = "idle"
  BY DEF FinishList, Return, span
<1>7. ProviderTypeOK'
  <2>1. building' \in Seq(Tiles) /\ index' = 0 /\ lists' \in 0 .. MaxLists
    BY <1>1, EmptyList, ProviderAssumption DEF ProviderTypeOK, FinishList, Return
  <2>2. QED  BY <2>1, <1>5, <1>6 DEF ProviderTypeOK, FinishList, world, span, objects
<1>8. ListInv'
  BY <1>6 DEF ListInv
<1>9. PublishedListIsComplete'
  <2>1. SidsOf(tiles)' \ {None} = SidsOf(building)
    BY <1>3, <1>5 DEF SidsOf
  <2>2. (None \in SidsOf(tiles)') <=> array.other
    BY <1>3, <1>5 DEF SidsOf
  <2>3. Asked' = Asked
    BY <1>6 DEF Asked
  <2>4. QED
    BY <2>1, <2>2, <2>3, <1>1, <1>2, <1>5, <1>6 DEF PublishedListIsComplete, Faithful
<1>10. TileInv'
  BY <1>1, <1>5, EmptyList DEF TileInv, Listed, FinishList, objects
<1>11. QED  BY <1>7, <1>8, <1>9, <1>10

\* Calls that change nothing but who holds what, and LogonUI's references.
LEMMA TileStep ==
  ASSUME ProviderInv, UNCHANGED <<users, remote, loadedRemote, scenario, array, list, loop,
                                  span, retired>>,
         references' \subseteq references \cup Listed,
         \A t \in holding' : t \in holding \/ (t \in references /\ t \notin retired)
  PROVE  ProviderInv'
<1>1. Listed' = Listed /\ Listed \subseteq Tiles
  BY DEF Listed, list, ProviderInv, ProviderTypeOK
<1>2. ProviderTypeOK'
  BY <1>1 DEF ProviderInv, ProviderTypeOK, list, loop, span
<1>3. ListInv'
  BY DEF ProviderInv, ListInv, Faithful, AskedBefore, SidsOf, list, loop, span
<1>4. PublishedListIsComplete'
  BY DEF ProviderInv, PublishedListIsComplete, Asked, SidsOf, list, span
<1>5. TileInv'
  BY <1>1 DEF ProviderInv, TileInv
<1>6. QED  BY <1>2, <1>3, <1>4, <1>5 DEF ProviderInv

LEMMA ChangeUsersStep ==
  ASSUME ProviderInv, ChangeUsers
  PROVE  ProviderInv'
<1> USE DEF ProviderInv
<1>1. /\ users' \subseteq Sids
      /\ IF pc = "listing" THEN always' = always \cap users' /\ ever' = ever \cup users'
                           ELSE always' = always /\ ever' = ever
      /\ UNCHANGED <<remote, loadedRemote, scenario, array, tiles, ready, pc, index, building,
                     lists, retired, holding, references>>
  BY DEF ChangeUsers, ProviderTypeOK, list, objects
<1>2. ProviderTypeOK'
  BY <1>1 DEF ProviderTypeOK
<1>3. ListInv'
  <2>1. SidsOf(building)' = SidsOf(building) /\ AskedBefore(index)' = AskedBefore(index)
    BY <1>1 DEF SidsOf, AskedBefore
  <2>2. CASE pc = "listing"
    BY <2>1, <2>2, <1>1 DEF ListInv, Faithful
  <2>3. QED  BY <2>2, <1>1 DEF ListInv
<1>4. PublishedListIsComplete'
  <2>1. SidsOf(tiles)' = SidsOf(tiles) /\ Asked' = Asked
    BY <1>1 DEF SidsOf, Asked
  <2>2. CASE pc = "listing"
    BY <2>2, <1>1 DEF ListInv, PublishedListIsComplete
  <2>3. QED  BY <2>1, <2>2, <1>1 DEF PublishedListIsComplete
<1>5. TileInv'
  BY <1>1 DEF TileInv, Listed
<1>6. QED  BY <1>2, <1>3, <1>4, <1>5

\* The steps of the provider, one by one.
LEMMA ProviderStep ==
  ASSUME ProviderInv, ProviderNext
  PROVE  ProviderInv'
<1>1. /\ users \subseteq Sids /\ remote \in BOOLEAN /\ loadedRemote \in BOOLEAN
      /\ scenario \in Scenarios /\ array \in UserArrays \cup {None}
      /\ "other" \in Scenarios
  BY DEF ProviderInv, ProviderTypeOK, Scenarios
<1>2. ASSUME NEW s \in Scenarios, SetUsageScenario(s)  PROVE ProviderInv'
  BY <1>1, <1>2, ReplacingStep DEF SetUsageScenario, world
<1>3. ASSUME NEW a \in UserArrays, SetUserArray(a)  PROVE ProviderInv'
  BY <1>1, <1>3, ReplacingStep DEF SetUserArray, world
<1>4. CASE Recreate
  BY <1>1, <1>4, ReplacingStep DEF Recreate, world
<1>5. CASE BeginList
  BY <1>5, BeginListStep
<1>6. CASE ExamineUser
  BY <1>6, ExamineUserStep
<1>7. CASE FinishList
  BY <1>7, FinishListStep
<1>8. CASE FailList
  <2>1. ProviderTypeOK'
    BY <1>8, EmptyList
       DEF ProviderInv, ProviderTypeOK, FailList, Return, DiscardPartial, world, span, objects
  <2>2. ListInv'
    BY <1>8 DEF ProviderInv, ListInv, FailList, Return, DiscardPartial
  <2>3. PublishedListIsComplete'
    BY <1>8 DEF ProviderInv, ListInv, PublishedListIsComplete, FailList, DiscardPartial
  <2>4. TileInv'
    BY <1>8 DEF ProviderInv, TileInv, Listed, FailList, DiscardPartial, objects
  <2>5. QED  BY <2>1, <2>2, <2>3, <2>4 DEF ProviderInv
<1>9. CASE GetCredentials
  BY <1>9, TileStep DEF GetCredentials, world, objects
<1>10. ASSUME NEW t \in references, SetStringValue(t)  PROVE ProviderInv'
  BY <1>10, TileStep DEF SetStringValue, world
<1>11. ASSUME NEW t \in references, FullReset(t)  PROVE ProviderInv'
  BY <1>11, TileStep DEF FullReset, world
<1>12. CASE UnAdvise
  BY <1>12, TileStep DEF UnAdvise, world
<1>13. CASE ChangeUsers
  BY <1>13, ChangeUsersStep
<1>14. CASE ChangeSession
  <2>1. ProviderTypeOK'
    BY <1>14 DEF ProviderInv, ProviderTypeOK, ChangeSession, list, loop, span, objects
  <2>2. ListInv'
    BY <1>14 DEF ProviderInv, ListInv, Faithful, AskedBefore, SidsOf,
                 ChangeSession, list, loop, span
  <2>3. PublishedListIsComplete' /\ TileInv'
    BY <1>14 DEF ProviderInv, PublishedListIsComplete, Asked, SidsOf, TileInv, Listed,
                 ChangeSession, list, span, objects
  <2>4. QED  BY <2>1, <2>2, <2>3 DEF ProviderInv
<1>15. QED
  BY <1>2, <1>3, <1>4, <1>5, <1>6, <1>7, <1>8, <1>9, <1>10, <1>11, <1>12, <1>13, <1>14
     DEF ProviderNext

\* The filter leaves the provider alone, and a stuttering step everything.
LEMMA ProviderKept ==
  ASSUME ProviderInv, UNCHANGED providerVars
  PROVE  ProviderInv'
<1>1. UNCHANGED <<users, remote, loadedRemote, scenario, array, tiles, ready, pc, index,
                  building, lists, always, ever, retired, holding, references>>
  BY DEF providerVars, world, list, loop, span, objects
<1>2. ProviderTypeOK' /\ TileInv'
  BY <1>1 DEF ProviderInv, ProviderTypeOK, TileInv, Listed
<1>3. ListInv'
  BY <1>1 DEF ProviderInv, ListInv, Faithful, AskedBefore, SidsOf
<1>4. PublishedListIsComplete'
  BY <1>1 DEF ProviderInv, PublishedListIsComplete, Asked, SidsOf
<1>5. QED  BY <1>2, <1>3, <1>4 DEF ProviderInv

-----------------------------------------------------------------------------
(* The steps of the filters.                                                *)

LEMMA FilterStep ==
  ASSUME ProviderInv, FilterInv, [Next]_vars
  PROVE  FilterInv'
<1>1. CASE BeginFiltering
  BY <1>1, FilterAssumption DEF BeginFiltering, FilterInv, Providers, Filters
<1>2. CASE Filter
  <2>1. CASE OutOfScope
    <3>1. found' = [remote |-> remote, enabled |-> FALSE] /\ allowed' = allowed
      BY <1>2, <2>1 DEF Filter
    <3>2. found' \in [remote : BOOLEAN, enabled : BOOLEAN] /\ ~ found'.enabled
      BY <3>1 DEF ProviderInv, ProviderTypeOK
    <3>3. /\ "ours" \in todo /\ todo' = todo \ {"ours"}
          /\ UNCHANGED <<enableFilter, signIn, denied>>
      BY <1>2 DEF Filter
    <3>4. QED  BY <3>1, <3>2, <3>3 DEF FilterInv
  <2>2. CASE ~ OutOfScope
    <3>1. PICK enabled \in BOOLEAN : /\ allowed' = Keep(enabled)
                                     /\ found' = [remote |-> remote, enabled |-> enabled]
      BY <1>2, <2>2 DEF Filter, GetBool, FilterInv
    <3>2. /\ "ours" \in todo /\ todo' = todo \ {"ours"} /\ ~ remote
          /\ UNCHANGED <<enableFilter, signIn, denied>>
      BY <1>2, <2>2 DEF Filter, OutOfScope
    <3>3. allowed' \subseteq allowed /\ (enabled => allowed' \subseteq {Ours})
      BY <3>1 DEF Keep
    <3>4. denied = {} => allowed' = Others \/ (allowed' = {Ours} /\ enabled)
      BY <3>1, <3>2 DEF FilterInv, Keep, Providers
    <3>5. /\ found' \in [remote : BOOLEAN, enabled : BOOLEAN]
          /\ ~ found'.remote /\ found'.enabled = enabled
      BY <3>1, <3>2 DEF ProviderInv, ProviderTypeOK
    <3>6. QED  BY <3>2, <3>3, <3>4, <3>5 DEF FilterInv
  <2>3. QED  BY <2>1, <2>2
<1>3. CASE AnotherFilter
  BY <1>3 DEF AnotherFilter, FilterInv, Filters
<1>4. CASE Publish
  BY <1>4 DEF Publish, FilterInv
<1>5. CASE ProviderNext /\ UNCHANGED filterVars
  BY <1>5 DEF filterVars, FilterInv
<1>6. CASE UNCHANGED vars
  BY <1>6 DEF vars, filterVars, FilterInv
<1>7. QED  BY <1>1, <1>2, <1>3, <1>4, <1>5, <1>6 DEF Next

\* Every step keeps the invariant.
LEMMA NextInv == IInv /\ [Next]_vars => IInv'
<1> SUFFICES ASSUME IInv, [Next]_vars PROVE IInv'
  OBVIOUS
<1>1. ASSUME ProviderNext PROVE ProviderInv'
  BY <1>1, ProviderStep DEF IInv
<1>2. ASSUME UNCHANGED providerVars PROVE ProviderInv'
  BY <1>2, ProviderKept DEF IInv
<1>3. ProviderNext \/ UNCHANGED providerVars
  BY DEF Next, vars, BeginFiltering, Filter, AnotherFilter, Publish
<1>4. QED  BY <1>1, <1>2, <1>3, FilterStep DEF IInv

-----------------------------------------------------------------------------
(* The theorems.                                                            *)

\* The inductive invariant of the provider and the filters.
THEOREM Inductive == Spec => []IInv
BY InitInv, NextInv, PTL DEF Spec

\* Type correctness.
THEOREM TypeCorrect == Spec => []TypeOK
<1>1. IInv => TypeOK
  BY DEF IInv, ProviderInv, FilterInv, TypeOK
<1>2. QED  BY <1>1, Inductive, PTL

\* No partial, stale or repetitive list is ever shown, for any users and arrays
\* (CreateCredentials).
THEOREM ListsAreComplete == Spec => []PublishedListIsComplete
<1>1. IInv => PublishedListIsComplete
  BY DEF IInv, ProviderInv
<1>2. QED  BY <1>1, Inductive, PTL

\* A tile of a replaced list cannot submit anything (ClearCredentials, Retire).
THEOREM SubmittedAlwaysCurrent == Spec => []SubmittedIsCurrent
<1>1. IInv => SubmittedIsCurrent
  BY DEF IInv, ProviderInv, TileInv, SubmittedIsCurrent, MaySubmit
<1>2. QED  BY <1>1, Inductive, PTL

\* A tile of a replaced list holds nothing that was typed (ClearCredentials).
THEOREM ReplacedTilesAlwaysHoldNothing == Spec => []ReplacedTilesHoldNothing
<1>1. IInv => ReplacedTilesHoldNothing
  BY DEF IInv, ProviderInv, TileInv, ReplacedTilesHoldNothing
<1>2. QED  BY <1>1, Inductive, PTL

\* The filter never takes a denial back, and enforces what it read (Filter).
THEOREM FilterAlwaysOnlyDenies == Spec => []FilterOnlyDenies
<1>1. IInv => FilterOnlyDenies
  BY DEF IInv, FilterInv, FilterOnlyDenies
<1>2. QED  BY <1>1, Inductive, PTL

\* Nobody is left to sign in with, the other filter aside, only when the session
\* was taken over between the filter's look at it and the provider's (Filter,
\* CProvider).
THEOREM NobodyLeftMeansTakeover == Spec => []NobodyOnlyAfterTakeover
<1>1. IInv => NobodyOnlyAfterTakeover
  BY FilterAssumption DEF IInv, FilterInv, NobodyOnlyAfterTakeover, Providers
<1>2. QED  BY <1>1, Inductive, PTL
=============================================================================
