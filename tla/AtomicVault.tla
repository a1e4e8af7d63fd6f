----------------------------- MODULE AtomicVault -----------------------------
(***************************************************************************)
(* What a call of the credential store promises its caller: it changes the *)
(* durable vault in one step, exactly as the call asks, or not at all; an  *)
(* error means not at all, unless a second access fails while the first    *)
(* failure is being undone, and a crash leaves one or the other.           *)
(***************************************************************************)
EXTENDS Vault

VARIABLES durable,   \* the vault a Load would return, or NoVault
          before,    \* the durable vault when the call began
          live,      \* SIDs that Windows still resolves
          call, phase, outcome,
          faults     \* accesses that failed in this call

vars == <<durable, before, live, call, phase, outcome>>

\* Nothing is different about account s.
SameAccount(v, w, s) == /\ s \in v.accounts <=> s \in w.accounts
                        /\ s \in v.enforced <=> s \in w.enforced
                        /\ KeysOf(v, s) = KeysOf(w, s)

\* w is what call c may make of v.
Effect(c, v, w) ==
  /\ w.machine = v.machine
  /\ c.op \in {"startup", "refresh"} =>
       \A s \in Sids :
         \/ SameAccount(v, w, s)
         \/ s \notin live \cup w.accounts \cup w.enforced /\ KeysOf(w, s) = {}
  /\ c.op \notin {"startup", "refresh"} =>
       \A s \in Sids \ {c.sid} : SameAccount(v, w, s)
  /\ c.op # "register" /\ c.sid \in w.accounts => c.sid \in v.accounts
  /\ c.op \in {"register", "remove"} => (c.sid \in v.enforced <=> c.sid \in w.enforced)
  /\ c.op = "register" => /\ KeysOf(w, c.sid) = KeysOf(v, c.sid) \cup {c.key}
                          /\ c.key \notin KeysOf(v, c.sid)
  /\ c.op = "remove" => KeysOf(w, c.sid) = KeysOf(v, c.sid) \ {c.key}
  /\ c.op \in {"upsert", "enable", "disable"} => KeysOf(w, c.sid) = KeysOf(v, c.sid)
  /\ c.op \in {"enable", "disable"} => (c.sid \in w.enforced <=> c.op = "enable")
  /\ w.enforced \subseteq {s \in Sids : KeysOf(w, s) # {}}

Init == /\ durable = NoVault /\ before = NoVault /\ live = Sids
        /\ call = StartupCall /\ phase = "down" /\ outcome = "none"

\* A request arrives, or the service starts.
Begin(c) ==
  /\ IF c.op = "startup" THEN phase = "down" ELSE phase = "idle"
  /\ phase' = "busy" /\ call' = c /\ outcome' = "none"
  /\ before' = durable
  /\ UNCHANGED <<durable, live>>

\* The vault of a new installation.
Create ==
  /\ phase = "busy" /\ durable = NoVault
  /\ \E m \in Machines : durable' = EmptyVault(m)
  /\ UNCHANGED <<before, live, call, phase, outcome>>

Commit ==
  /\ phase = "busy" /\ durable # NoVault
  /\ before = durable \/ before = NoVault
  /\ durable' \in Vaults /\ Effect(call, durable, durable')
  /\ UNCHANGED <<before, live, call, phase, outcome>>

RollBack ==
  /\ phase = "busy" /\ before # NoVault
  /\ durable' = before
  /\ UNCHANGED <<before, live, call, phase, outcome>>

\* The final write and the return may fall together.
Succeed ==
  /\ phase = "busy" /\ phase' = "idle" /\ outcome' = "ok"
  /\ call' = StartupCall
  /\ \/ UNCHANGED durable
     \/ /\ before = durable \/ before = NoVault
        /\ durable' \in Vaults /\ Effect(call, durable, durable')
  /\ UNCHANGED <<before, live>>

\* After an error the durable vault is the one from before the call, unless
\* there was none, or the way back failed too.
Fail ==
  /\ phase = "busy"
  /\ before = durable \/ before = NoVault \/ faults > 1
  /\ phase' = (IF call.op = "startup" THEN "stopped" ELSE "idle")
  /\ outcome' = "error" /\ call' = StartupCall
  /\ UNCHANGED <<durable, before, live>>

Crash ==
  /\ phase \in {"idle", "busy"} /\ phase' = "down"
  /\ call' = StartupCall /\ outcome' = "none"
  /\ UNCHANGED <<durable, before, live>>

Reboot == phase = "stopped" /\ phase' = "down"
          /\ UNCHANGED <<durable, before, live, call, outcome>>

DeleteAccount(s) == /\ s \in live /\ live' = live \ {s}
                    /\ UNCHANGED <<durable, before, call, phase, outcome>>

Next == \/ \E c \in Calls : Begin(c)
        \/ Create \/ Commit \/ RollBack \/ Succeed \/ Fail \/ Crash \/ Reboot
        \/ \E s \in Sids : DeleteAccount(s)

Spec == Init /\ [][Next]_vars
=============================================================================
