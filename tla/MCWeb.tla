-------------------------------- MODULE MCWeb --------------------------------
(* Parts of the web application that do not share state with each other or    *)
(* with those of MCDapp, one at a time: the history of transactions, whose     *)
(* constants are in the cfg, the connection of a wallet and the page's language. *)
EXTENDS Web, MCTransactions

VARIABLES part

\* The page with the translations of two locales.
VARIABLES phrase, messages, crowdin, fbt, public, converting, deliveries, runs, stored,
          dropdown, shown, loaded, calls, made, failures, overlapped
Page == INSTANCE Translations WITH
        Phrases <- {<<"{", "x", " ", "}", "x">>}, Locales <- <<"ko_KR", "zh_CN">>,
        Languages <- {"en_US", "ko_KR", "zh_CN"}, MaxDeliveries <- 1, MaxRuns <- 1,
        MaxCalls <- 3, MaxFailures <- 1

translationVars == <<phrase, messages, crowdin, fbt, public, converting, deliveries,
                     runs, stored, dropdown, shown, loaded, calls, made, failures,
                     overlapped>>

WebInit ==
    /\ part \in {"history", "connection", "page"}
    /\ Init
    /\ C!Init
    /\ part # "connection" =>
          eagerConnect = "unset" /\ wallet = None /\ funded = {} /\ ~ownBrowser
    /\ Page!Init
    /\ part # "page" => stored = ""

WebNext ==
    /\ UNCHANGED part
    /\ \/ part = "history" /\ Next /\ UNCHANGED <<connVars, translationVars>>
       \/ part = "connection" /\ C!Next /\ UNCHANGED <<vars, translationVars>>
       \/ part = "page" /\ Page!Next /\ UNCHANGED <<vars, connVars>>

\* The fairness of Transactions and of Connection, once that part is chosen.
WebSpec ==
    /\ WebInit /\ [][WebNext]_<<part, vars, connVars, translationVars>>
    /\ WF_vars(part = "history" /\ \E history \in dapp.loads : LoadTimer(history))
    /\ \A h \in Hashes : WF_vars(part = "history" /\ observeTransaction(h))
    /\ WF_connVars(part = "connection" /\ C!Derives)
-----------------------------------------------------------------------------
\* Texts keep their variables, and the page shows the language chosen.
PageTrue ==
    part = "page" => Page!TypeOK /\ Page!VariablesKept /\ Page!LocaleSettles

\* Where connections are made in the modal, no vendor's button stays disabled
\* while nobody is asked.
ButtonsComeBack == C!ButtonsComeBack
=============================================================================
