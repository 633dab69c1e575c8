---------------------------- MODULE MCLiveParts -----------------------------
(***************************************************************************)
(* The parts that have to get somewhere: loops that reconnect, acceptors,  *)
(* searches, supervisors and streams, each with an instance of its own.    *)
(* They share no state, so a behaviour is about one of them, its focus,    *)
(* and the others stay in one of their initial states.                     *)
(***************************************************************************)
EXTENDS ChannelConnector, HubReconnect, ConfiguredParticipants, PeerDiscovery,
        ConnectionAcceptor, ServiceSupervisor, ConsoleHost, TrafficSubscription,
        ConsentRendezvous, RustChannel

VARIABLE focus

liveVars ==
    <<focus, vars, reconnect, participant, peer, acceptor, service, console, traffic,
      consent, rust>>

LivePart ==
    {"connector", "reconnect", "participant", "peer", "acceptor", "service",
     "console", "traffic", "consentQueue", "consentFaults",
     "rustCallee", "rustCaller"}

LivePartsInit ==
    /\ focus \in LivePart
    /\ Init /\ (focus = "connector" \/ (redial /\ ~stopped))
    /\ ReconnectInit /\ (focus = "reconnect" \/ (reconnect.needsCap /\ reconnect.disk))
    /\ ParticipantInit /\ (focus = "participant" \/ participant.registers)
    /\ PeerInit
    /\ AcceptorInit /\ (focus = "acceptor" \/ acceptor.server = "socket")
    /\ ServiceInit /\ (focus = "service" \/ (service.policy = "never" /\ service.readiness = "spawned"))
    /\ ConsoleInit
    /\ TrafficInit
    /\ ConsentInit
    /\ RustInit /\ (focus \in {"rustCallee", "rustCaller"} \/ ~rust.halfOpen)

\* A step of one part leaves the others alone.
About(part) ==
    /\ focus = part
    /\ UNCHANGED focus
    /\ part # "connector" => UNCHANGED vars
    /\ part # "reconnect" => UNCHANGED reconnect
    /\ part # "participant" => UNCHANGED participant
    /\ part # "peer" => UNCHANGED peer
    /\ part # "acceptor" => UNCHANGED acceptor
    /\ part # "service" => UNCHANGED service
    /\ part # "console" => UNCHANGED console
    /\ part # "traffic" => UNCHANGED traffic
    /\ part \notin {"consentQueue", "consentFaults"} => UNCHANGED consent
    /\ part \notin {"rustCallee", "rustCaller"} => UNCHANGED rust

LivePartsNext ==
    \/ About("connector") /\ Next
    \/ About("reconnect") /\ ReconnectNext
    \/ About("participant") /\ ParticipantNext
    \/ About("peer") /\ PeerNext
    \/ About("acceptor") /\ AcceptorNext
    \/ About("service") /\ ServiceNext
    \/ About("console") /\ ConsoleNext
    \/ About("traffic") /\ TrafficNext
    \/ About("consentQueue") /\ ConsentNext /\ consent'.faults = 0
    \/ About("consentFaults") /\ ConsentNext /\ \A c \in ConsentCall : consent'.slots[c] <= 1
    \/ About("rustCallee") /\ RustNext /\ rust'.call = rust.call
    \/ About("rustCaller") /\ RustNext /\ rust'.handler = rust.handler

\* The fairness of the parts' own live specifications.
LivePartsSpec ==
    /\ LivePartsInit
    /\ [][LivePartsNext]_liveVars
    /\ WF_liveVars(About("connector") /\ LoopStep)
    /\ WF_liveVars(About("reconnect") /\ ReconnectLoop)
    /\ WF_liveVars(About("participant") /\ ParticipantLoop)
    /\ WF_liveVars(About("peer") /\ PeerReactions)
    /\ WF_liveVars(About("peer") /\ PeerTimer)
    /\ \A s \in PeerState : SF_liveVars(About("peer") /\ AttemptAnswered(s))
    /\ \A c \in Conn : WF_liveVars(About("acceptor") /\ AcceptorStep(c))
    /\ WF_liveVars(About("service") /\ SupervisorSteps)
    /\ WF_liveVars(About("service") /\ KilledExits)
    /\ \A a \in Attachment : WF_liveVars(About("console") /\ ConsoleStep(a))
    /\ WF_liveVars(About("traffic") /\ TrafficPump)
    /\ WF_liveVars((About("consentQueue") \/ About("consentFaults")) /\ ClientSteps)
    /\ WF_liveVars((About("consentQueue") \/ About("consentFaults")) /\ ApproverSteps)
    /\ WF_liveVars((About("rustCallee") \/ About("rustCaller")) /\ RustLoopEnd)
    /\ \A r \in InRequest : WF_liveVars(About("rustCallee") /\ InboundSteps(r))
    /\ \A c \in RustCall : WF_liveVars(About("rustCaller") /\ CallSteps(c))
=============================================================================
