---------------------------- MODULE MCComponents ----------------------------
(***************************************************************************)
(* Seven components that share no state, side by side: the first state       *)
(* chooses the one that runs, the others stay in an initial state.  One    *)
(* run explores each of them as if it were alone.                          *)
(***************************************************************************)
EXTENDS CallSites, Sharing, CoChange, HostInstall, LspClient, LspReadiness, Freshness

VARIABLE chosen   \* the component that runs

\* Three call sites in one file, one of them a macro; two targets elsewhere; and a
\* site beside the second target, in a file no build compiles.
CONSTANTS s1, s2, o, m, t1, t2, f1, f2, f3

FileOfDef == [x \in {s1, s2, o, m, t1, t2} |->
                IF x = t1 THEN f2 ELSE IF x \in {o, t2} THEN f3 ELSE f1]
CallerOfDef == [s \in {s1, s2, o, m} |-> IF s = o THEN "other" ELSE "caller"]
CalleeDef == [s \in {s1, s2, o, m} |-> IF s \in {o, m} THEN {} ELSE {t1, t2}]

\* Three revisions: the second has one file less, the third also another text.
CONSTANTS r1, r2, r3, p1, p2

ContentOfDef == [r \in {r1, r2, r3} |->
                   [x \in {p1, p2} |-> IF x = p2 THEN IF r = r1 THEN 1 ELSE 0
                                       ELSE IF r = r3 THEN 2 ELSE 1]]
AncestorsOfDef == [r \in {r1, r2, r3} |-> {r1, r}]

allVars == <<siteVars, shareVars, mineVars, hostVars, clientVars, waitVars, freshVars>>

Is(name) == chosen = name /\ UNCHANGED chosen

SitesStep == Is("sites") /\ SitesNext
                /\ UNCHANGED <<shareVars, mineVars, hostVars, clientVars, waitVars, freshVars>>
ShareStep == Is("share") /\ ShareNext
                /\ UNCHANGED <<siteVars, mineVars, hostVars, clientVars, waitVars, freshVars>>
MineStep == Is("mine") /\ MineNext
                /\ UNCHANGED <<siteVars, shareVars, hostVars, clientVars, waitVars, freshVars>>
HostStep == Is("host") /\ HostNext
                /\ UNCHANGED <<siteVars, shareVars, mineVars, clientVars, waitVars, freshVars>>
ReadyStep == Is("ready") /\ WaitNext
                /\ UNCHANGED <<siteVars, shareVars, mineVars, hostVars, clientVars, freshVars>>
FreshStep == Is("fresh") /\ FreshNext
                /\ UNCHANGED <<siteVars, shareVars, mineVars, hostVars, clientVars, waitVars>>

\* The steps of the language-server client that fairness speaks of.
NotClient == UNCHANGED <<siteVars, shareVars, mineVars, hostVars, waitVars, freshVars>>
Calling == Is("client") /\ CallerStep /\ NotClient
Reading == Is("client") /\ ReaderStep /\ NotClient
Hearing == Is("client") /\ ServerRead /\ NotClient
Serving == Is("client") /\ ServerStep /\ NotClient

AllInit ==
    /\ SitesInit /\ ShareInit /\ MineInit /\ HostInit /\ ClientInit /\ WaitInit /\ FreshInit
    /\ chosen \in {"sites", "share", "mine", "host", "client", "ready", "fresh"}
    \* of several initial states, a component that does not run needs one
    /\ chosen /= "sites" => ~rowsForm
    /\ chosen /= "share" => tree = [x \in SharedFiles |-> 0]
    /\ chosen /= "host" =>
          /\ \A x \in Hosts : config[x].text = "absent"
          /\ settings.text = "absent"

AllNext ==
    \/ SitesStep \/ ShareStep \/ MineStep \/ HostStep \/ ReadyStep \/ FreshStep
    \/ Calling \/ Reading \/ Serving

AllSpec ==
    /\ AllInit /\ [][AllNext]_<<allVars, chosen>>
    /\ WF_<<allVars, chosen>>(Calling)
    /\ WF_<<allVars, chosen>>(Reading)
    /\ WF_<<allVars, chosen>>(Hearing)
=============================================================================
