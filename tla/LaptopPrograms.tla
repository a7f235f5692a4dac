--------------------------- MODULE LaptopPrograms ---------------------------
(***************************************************************************)
(* The programs around a room that share no state with it nor with one     *)
(* another: the two voices, the panel, the installation and its daemon     *)
(* processes, the hooks of the agent's host, the speculative merge worker  *)
(* and the league. A behaviour is one of them, chosen at the start and     *)
(* named by part; the others rest.                                         *)
(***************************************************************************)
EXTENDS TerminalVoice, DesktopVoice, RoomPanel, Laptop, HostHooks, SpecMerge, League

VARIABLE part

Parts == {"terminal voice", "desktop voice", "panel", "laptop", "hooks", "merge", "league"}

vars == <<part, voiceVars, desktopVars, panelVars, laptopVars, hookVars, mergeVars,
          leagueVars>>

Init ==
    /\ part \in Parts
    /\ InitVoice
    /\ InitDesktop
    /\ InitPanel
    /\ InitLaptop
    /\ InitHooks
    /\ InitMerge
    /\ InitLeague

Next ==
    /\ UNCHANGED part
    /\ \/ /\ part = "terminal voice"
          /\ NextVoice
          /\ UNCHANGED <<desktopVars, panelVars, laptopVars, hookVars, mergeVars,
                         leagueVars>>
       \/ /\ part = "desktop voice"
          /\ NextDesktop
          /\ UNCHANGED <<voiceVars, panelVars, laptopVars, hookVars, mergeVars,
                         leagueVars>>
       \/ /\ part = "panel"
          /\ NextPanel
          /\ UNCHANGED <<voiceVars, desktopVars, laptopVars, hookVars, mergeVars,
                         leagueVars>>
       \/ /\ part = "laptop"
          /\ NextLaptop
          /\ UNCHANGED <<voiceVars, desktopVars, panelVars, hookVars, mergeVars,
                         leagueVars>>
       \/ /\ part = "hooks"
          /\ NextHooks
          /\ UNCHANGED <<voiceVars, desktopVars, panelVars, laptopVars, mergeVars,
                         leagueVars>>
       \/ /\ part = "merge"
          /\ NextMerge
          /\ UNCHANGED <<voiceVars, desktopVars, panelVars, laptopVars, hookVars,
                         leagueVars>>
       \/ /\ part = "league"
          /\ NextLeague
          /\ UNCHANGED <<voiceVars, desktopVars, panelVars, laptopVars, hookVars,
                         mergeVars>>

\* Event loops run their continuations and timers, a player process ends, the
\* browser ends the line it is saying, and a worker that is up comes to an end
\* with its model and with each request.
Fairness ==
    /\ WF_voiceVars(part = "terminal voice" /\ Continue)
    /\ WF_voiceVars(part = "terminal voice" /\ PlayerExits)
    /\ WF_voiceVars(part = "terminal voice" /\ ModelAnswers)
    /\ \A l \in Lines : WF_voiceVars(part = "terminal voice" /\ RequestAnswered(l))
    /\ WF_desktopVars(part = "desktop voice" /\ TimerFires)
    /\ WF_desktopVars(part = "desktop voice" /\ CurrentEnds)
    /\ WF_panelVars(part = "panel" /\ AnswerEnds)

Spec == Init /\ [][Next]_vars /\ Fairness

\* Whatever is taken on is brought to an end: a line of either voice is said, cut
\* or dropped unless its worker is gone (speech/index.js _pump, ui/speech.js
\* _pump), and the panel does not wait for ever for a model that can answer
\* (app.js _finishStep, _degrade).
Unsettled ==
    \/ ~Silenced /\ \E l \in Lines : Unsaid(l)
    \/ \E l \in Lines : Unheard(l)
    \/ Waiting

NothingHangs == Unsettled ~> ~Unsettled
=============================================================================
