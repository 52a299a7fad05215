---------------------------- MODULE Translations ----------------------------
(***************************************************************************)
(* The translations of the web application: the scripts that take phrases   *)
(* to Crowdin and back (fbtToCrowdin.js, crowdinToFbt.js, whose variables   *)
(* are encoded so that translators and machines leave them alone, and       *)
(* splitTranslations.js), and the switching of the page's language          *)
(* (setLocale.js, _app.js).                                                 *)
(*                                                                         *)
(* A phrase is a sequence of characters, of which only those matter that    *)
(* the scripts look at; base64 gives each character a code of its own.      *)
(* One phrase stands for all, as the scripts treat each key by itself.      *)
(* Crowdin's translators and fbt are outside the repository.                *)
(***************************************************************************)
EXTENDS Naturals, SequencesExt, TLC

CONSTANTS Phrases,       \* the phrases there are, with their variables in braces
          Locales,       \* crowdinToFbt's locales, in its order
          Languages,     \* the languages the page offers
          MaxDeliveries, \* bound: translations that Crowdin delivers
          MaxRuns,       \* bound: conversions
          MaxCalls,      \* bound: loads of the page and choices of a language
          MaxFailures    \* bound: requests of the page that fail

VARIABLES phrase,        \* .source_strings.json
          messages,      \* crowdin/all-messages.json
          crowdin,       \* crowdin/all-messages_<locale>.json
          fbt, public,   \* fbt/<locale>.json, public/translations/<locale>.json
          converting,    \* crowdinToFbt.js
          deliveries, runs,
          stored,        \* localStorage.locale
          dropdown,      \* the locale in the state of the App component
          shown, loaded, \* IntlViewerContext.locale, and fbt's translations
          calls,         \* calls of setLocale that wait for their translations
          made, failures,
          overlapped     \* history: a call was made while another waited

pipelineVars == <<phrase, messages, crowdin, fbt, public, converting, deliveries, runs>>
pageVars == <<stored, dropdown, shown, loaded, calls, made, failures, overlapped>>
translationVars == <<pipelineVars, pageVars>>

Missing == <<>>
LocaleSet == ToSet(Locales)
-----------------------------------------------------------------------------
(* The encoding.                                                            *)

EqualPrefix == <<"E_">>
VarPrefix == <<"VAR_">>
b64Prefix == <<"_", "B64", "_">>

Code == [x |-> "x'", b64 |-> "b64'"] @@ ("_" :> "_'") @@ (" " :> " '") @@ ("=" :> "='")
           @@ ("{" :> "{'") @@ ("}" :> "}'")
Sanitized == [x |-> "X", b64 |-> "B64"] @@ ("_" :> "_") @@ (" " :> "_")

b64Encode(str) == [i \in DOMAIN str |-> Code[str[i]]]
b64Decode(str) ==
    [i \in DOMAIN str |-> IF \E c \in DOMAIN Code : Code[c] = str[i]
                          THEN CHOOSE c \in DOMAIN Code : Code[c] = str[i] ELSE "?"]

Drop(str, n) == SubSeq(str, n + 1, Len(str))
Inner(str, n) == SubSeq(str, n + 1, Len(str) - 1)
Places(str, part) ==
    {i \in 1 .. Len(str) - Len(part) + 1 : SubSeq(str, i, i + Len(part) - 1) = part}
Includes(str, part) == Places(str, part) # {}

encodeVarName(varName) ==
    LET equal == IsPrefix(<<"=">>, varName)
        name == IF equal THEN Tail(varName) ELSE varName
        kept == SelectSeq(name, LAMBDA c : c \in DOMAIN Sanitized)
    IN  (IF equal THEN EqualPrefix ELSE <<>>) \o VarPrefix
            \o [i \in DOMAIN kept |-> Sanitized[kept[i]]] \o b64Prefix \o b64Encode(name)

\* The loop of both scripts: what is between braces is converted.
Scan(convert(_), str) ==
    FoldLeft(LAMBDA s, c :
        CASE c = "{" -> [s EXCEPT !.inBracket = TRUE]
          [] c = "}" -> [out |-> s.out \o <<"{">> \o convert(s.varName) \o <<"}">>,
                         varName |-> <<>>, inBracket |-> FALSE]
          [] OTHER -> IF s.inBracket THEN [s EXCEPT !.varName = Append(@, c)]
                      ELSE [s EXCEPT !.out = Append(@, c)],
        [out |-> <<>>, varName |-> <<>>, inBracket |-> FALSE], str).out

\* A string that is variables from end to end is encoded as a whole.
encode(str) ==
    IF IsPrefix(<<"{", "=">>, str) /\ IsSuffix(<<"}">>, str)
    THEN <<"{">> \o VarPrefix \o b64Encode(Inner(str, 1)) \o <<"}">>
    ELSE Scan(encodeVarName, str)

\* The part of a variable's name after _B64_; Throw where the script throws.
Throw == <<"throw">>
decodeVarName(encodedVarName) ==
    LET equal == IsPrefix(EqualPrefix, encodedVarName)
        data == IF equal THEN Tail(encodedVarName) ELSE encodedVarName
        at == Places(data, b64Prefix)
        first == CHOOSE i \in at : \A j \in at : i <= j
    IN  IF ~IsPrefix(VarPrefix, data) \/ at = {} \/ (\E i \in at : i >= first + 3)
        THEN Throw
        ELSE (IF equal THEN <<"=">> ELSE <<>>) \o b64Decode(Drop(data, first + 2))

\* Faulty: any string from a variable to a variable is taken for a whole.
decodeWhole(str) ==
    IF IsPrefix(<<"{">> \o VarPrefix, str) /\ IsSuffix(<<"}">>, str)
    THEN <<"{">> \o b64Decode(Inner(str, 2)) \o <<"}">>
    ELSE Scan(decodeVarName, str)

decode(str) ==
    IF IsPrefix(<<"{">> \o VarPrefix, str) /\ IsSuffix(<<"}">>, str)
       /\ ~Includes(str, b64Prefix)
    THEN <<"{">> \o b64Decode(Inner(str, 2)) \o <<"}">>
    ELSE Scan(decodeVarName, str)

\* The variables of a string with their braces, and the characters between them.
Pieces(str) ==
    FoldLeft(LAMBDA p, c :
        IF c # "{" /\ p # <<>> /\ Head(Last(p)) = "{" /\ Last(Last(p)) # "}"
        THEN Front(p) \o <<Append(Last(p), c)>> ELSE Append(p, <<c>>),
        <<>>, str)
VariablesOf(str) == {p \in ToSet(Pieces(str)) : Head(p) = "{"}
-----------------------------------------------------------------------------
(* The scripts.                                                             *)

PipelineInit ==
    /\ phrase \in Phrases
    /\ messages = Missing
    /\ crowdin = [l \in LocaleSet |-> Missing]
    /\ fbt = [l \in LocaleSet |-> Missing]
    /\ public = [l \in LocaleSet |-> Missing]
    /\ converting = [mode |-> "idle", left |-> <<>>]
    /\ deliveries = 0 /\ runs = 0

fbtToCrowdin ==
    /\ messages' = encode(phrase)
    /\ UNCHANGED <<phrase, crowdin, fbt, public, converting, deliveries, runs>>

\* A translation moves the variables about, may begin with text where there was
\* none, and at worst loses the beginning of a variable.
Deliver(l) ==
    /\ messages # Missing /\ deliveries < MaxDeliveries
    /\ deliveries' = deliveries + 1
    /\ LET pieces == Pieces(messages)
           moved == {FlattenSeq([i \in DOMAIN pieces |-> pieces[order[i]]]) :
                        order \in Permutations(DOMAIN pieces)}
       IN  \E text \in moved, change \in {"none", "longer", "broken"} :
              crowdin' = [crowdin EXCEPT ![l] =
                  CASE change = "none" -> text
                    [] change = "longer" -> <<"x">> \o text
                    [] change = "broken" -> SelectSeq(text, LAMBDA c : c # "VAR_")]
    /\ UNCHANGED <<phrase, messages, fbt, public, converting, runs>>

\* crowdinToFbt.js, for proofreading or not: locale after locale.  What cannot be
\* read is skipped and keeps the file of an earlier run.
crowdinToFbt(mode) ==
    /\ converting.mode = "idle" /\ runs < MaxRuns
    /\ runs' = runs + 1
    /\ converting' = [mode |-> mode, left |-> Locales]
    /\ UNCHANGED <<phrase, messages, crowdin, fbt, public, deliveries>>

Convert ==
    /\ converting.mode \in {"proof", "real"} /\ converting.left # <<>>
    /\ LET locale == Head(converting.left)
           source == IF converting.mode = "proof" THEN messages ELSE crowdin[locale]
           text == decode(source)
           skipped == locale = "tr_TR" \/ source = Missing
       IN  IF ~skipped /\ Includes(text, Throw)
           THEN /\ converting' = [mode |-> "idle", left |-> <<>>]
                /\ UNCHANGED fbt
           ELSE /\ converting' = [converting EXCEPT !.left = Tail(@)]
                /\ fbt' = IF skipped THEN fbt
                          ELSE [fbt EXCEPT ![locale] =
                                  IF converting.mode = "proof"
                                  THEN <<"<">> \o text \o <<">">> ELSE text]
    /\ UNCHANGED <<phrase, messages, crowdin, public, deliveries, runs>>

\* fbt's translate and splitTranslations.js, when crowdinToFbt went through.
splitTranslations ==
    /\ converting.mode \in {"proof", "real"} /\ converting.left = <<>>
    /\ converting' = [mode |-> "idle", left |-> <<>>]
    /\ public' = [l \in LocaleSet |-> IF fbt[l] = Missing THEN public[l] ELSE fbt[l]]
    /\ UNCHANGED <<phrase, messages, crowdin, fbt, deliveries, runs>>

Pipeline ==
    \/ fbtToCrowdin \/ Convert \/ splitTranslations
    \/ \E l \in LocaleSet : Deliver(l)
    \/ \E mode \in {"proof", "real"} : crowdinToFbt(mode)
-----------------------------------------------------------------------------
(* The page.                                                                *)

PageInit ==
    /\ stored \in Languages \cup LocaleSet \cup {""}
    /\ dropdown = "en_US" /\ shown = "en_US"
    /\ loaded = Missing
    /\ calls = {}
    /\ made = 0 /\ failures = 0
    /\ overlapped = FALSE

hasLanguage(userLocale) == userLocale \in Languages
localeFor(userLocale) == IF hasLanguage(userLocale) THEN userLocale ELSE "en_US"

\* A choice of language, up to the request: without one, it is over at once.
setLocale(userLocale) ==
    LET locale == localeFor(userLocale) IN
    IF locale = "en_US"
    THEN shown' = locale /\ dropdown' = locale /\ UNCHANGED calls
    ELSE /\ calls' = calls \cup {[locale |-> locale, chosen |-> TRUE, n |-> made]}
         /\ UNCHANGED <<shown, dropdown>>

\* A load of the page puts the locale into the state of App without waiting.
LoadPage ==
    /\ made < MaxCalls
    /\ made' = made + 1
    /\ loaded' = Missing /\ overlapped' = FALSE
    /\ IF stored = ""
       THEN calls' = {} /\ dropdown' = "en_US" /\ shown' = "en_US"
       ELSE /\ dropdown' = stored
            /\ shown' = "en_US"
            /\ calls' = IF localeFor(stored) = "en_US" THEN {}
                        ELSE {[locale |-> stored, chosen |-> FALSE, n |-> made]}
    /\ UNCHANGED <<stored, failures>>

\* Faulty: the choice is not stored.
ChooseUnstored(newLocale) ==
    /\ 0 < made /\ made < MaxCalls
    /\ made' = made + 1
    /\ setLocale(newLocale)
    /\ overlapped' = (overlapped \/ calls # {})
    /\ UNCHANGED <<stored, loaded, failures>>

onLocale(newLocale) ==
    /\ 0 < made /\ made < MaxCalls
    /\ made' = made + 1
    /\ stored' = newLocale
    /\ setLocale(newLocale)
    /\ overlapped' = (overlapped \/ calls # {})
    /\ UNCHANGED <<loaded, failures>>

\* The request of a call is answered, or fails: then the call ends there.  Calls
\* that overlap end in any order, and the last to end is the one that counts.
Answered(c) ==
    /\ calls' = calls \ {c}
    /\ \/ /\ shown' = c.locale
          /\ dropdown' = IF c.chosen THEN c.locale ELSE dropdown
          /\ loaded' = IF public[c.locale] = Missing THEN loaded ELSE public[c.locale]
          /\ UNCHANGED failures
       \/ /\ failures < MaxFailures
          /\ failures' = failures + 1
          /\ UNCHANGED <<shown, dropdown, loaded>>
    /\ UNCHANGED <<stored, made, overlapped>>

Page ==
    \/ LoadPage
    \/ \E l \in Languages : onLocale(l)
    \/ \E c \in calls : Answered(c)

Init == PipelineInit /\ PageInit

Next ==
    \/ Pipeline /\ UNCHANGED pageVars
    \/ Page /\ UNCHANGED pipelineVars

Spec == Init /\ [][Next]_translationVars
-----------------------------------------------------------------------------
\* The variables have their types.
TypeOK ==
    /\ phrase \in Phrases
    /\ \A f \in {fbt, public, crowdin} : DOMAIN f = LocaleSet
    /\ converting.mode \in {"idle", "proof", "real"}
    /\ {stored, dropdown} \subseteq Languages \cup LocaleSet \cup {""}
    /\ shown \in Languages
    /\ \A c \in calls : c.locale \in Languages \ {"en_US"}

\* Wherever translators move them, and whatever runs of the scripts were broken
\* off, no text for fbt or for the page has lost or changed a variable.
VariablesKept ==
    LET texts == {fbt[l] : l \in LocaleSet} \cup {public[l] : l \in LocaleSet} \cup {loaded}
        expected == VariablesOf(phrase)
    IN  \A text \in texts \ {Missing} : VariablesOf(text) = expected

\* If choices did not overlap and no request failed, the page and its dropdown
\* show the language of the browser's storage, over reloads.
LocaleSettles ==
    made > 0 /\ calls = {} /\ ~overlapped /\ failures = 0 =>
        /\ shown = localeFor(stored)
        /\ dropdown \in {shown, stored}
=============================================================================
