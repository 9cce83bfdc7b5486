----------------------------- MODULE MCServices -----------------------------
(* The components that ask a service outside the database and then write down *)
(* what it answered.  They share no state, so each is explored by itself:     *)
(* component names the one that moves in a behaviour.                         *)
EXTENDS Welcome, Efile, Connection, Signals, Chat, Dispatch, Discord

CONSTANTS pu1, v1, t1, t2

\* One source, and posts that are promoted, fail at the geography gate, or have
\* nothing to say for them.
MCSourceOf == [p \in Posts |-> CHOOSE s \in Sources : TRUE]
Verdict(rel, us, needs, keen) == [rel |-> rel, us |-> us, needs |-> needs, keen |-> keen]
MCVerdicts == {Verdict(TRUE, TRUE, TRUE, TRUE), Verdict(TRUE, FALSE, TRUE, TRUE),
               Verdict(FALSE, FALSE, FALSE, FALSE)}

MCTinOf == [v \in Vendors |-> IF v = v1 THEN t1 ELSE t2]

VARIABLE component

vars == <<component, connectionVars, efileVars, welcomeVars, chatVars, dispatchVars, discordVars,
          signalsVars>>

ASSUME ServicesAssumption ==
  /\ ConnectionAssumption /\ EfileAssumption /\ WelcomeAssumption
  /\ ChatAssumption /\ DispatchAssumption /\ DiscordAssumption

Init ==
  /\ component \in {"connection", "efile", "welcome", "chat", "dispatch", "discord",
                   "signals", "optimizer"}
  /\ ConnectionInit /\ EfileInit /\ WelcomeInit
  /\ ChatInit /\ DispatchInit /\ DiscordInit
  /\ SignalsInit
  /\ (component = "efile" \/ creds) /\ (component = "chat" \/ enabled = Mandatory)

\* The pipeline and the optimizer are looked at in turn, and of the stages a lead
\* may have those that the pipeline tells apart.
FewStages   == \A p \in Posts : leads'[p].stage \in {"none", "new", "drafted", "sent", "replied"}
OnlyScoring == runs' = 0 /\ weeks' = 0 /\ enabledSources' = Sources
OnePuller   == \A w \in Pullers \ {pu1} : pullers'[w] = pullers[w]

Next ==
  /\ UNCHANGED component
  /\ \/ /\ component = "connection" /\ ConnectionNext
        /\ UNCHANGED <<efileVars, welcomeVars, chatVars, dispatchVars, discordVars, signalsVars>>
     \/ /\ component = "efile" /\ EfileNext
        /\ UNCHANGED <<connectionVars, welcomeVars, chatVars, dispatchVars, discordVars, signalsVars>>
     \/ /\ component = "welcome" /\ WelcomeNext
        /\ UNCHANGED <<connectionVars, efileVars, chatVars, dispatchVars, discordVars, signalsVars>>
     \/ /\ component = "chat" /\ ChatNext
        /\ UNCHANGED <<connectionVars, efileVars, welcomeVars, dispatchVars, discordVars, signalsVars>>
     \/ /\ component = "dispatch" /\ DispatchNext
        /\ UNCHANGED <<connectionVars, efileVars, welcomeVars, chatVars, discordVars, signalsVars>>
     \/ /\ component = "discord" /\ DiscordNext
        /\ UNCHANGED <<connectionVars, efileVars, welcomeVars, chatVars, dispatchVars, signalsVars>>
     \/ /\ \/ component = "signals" /\ SignalsNext /\ FewStages /\ OnlyScoring
           \/ component = "optimizer" /\ SignalsNext /\ FewStages /\ OnePuller
        /\ UNCHANGED <<connectionVars, efileVars, welcomeVars, chatVars, dispatchVars, discordVars>>

Spec == Init /\ [][Next]_vars
          /\ \A f \in Functions :
               WF_connectionVars(component = "connection" /\ ConnectionStep(f))

\* The types of the components.
TypeOK ==
  /\ component = "connection" => ConnectionTypeOK
  /\ component = "efile"      => EfileTypeOK
  /\ component = "welcome"    => WelcomeTypeOK
  /\ component = "chat"       => ChatTypeOK
  /\ component = "dispatch"   => DispatchTypeOK
  /\ component = "discord"    => DiscordTypeOK
  /\ component \in {"signals", "optimizer"} => SignalsTypeOK

-----------------------------------------------------------------------------
(* The properties of the components; each is stated in full in its module.    *)

\* Connection: every call to a function of the connection ends.
ServiceCallsEnd == component = "connection" => ConnectionCallsEnd
=============================================================================
