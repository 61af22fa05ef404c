------------------------------ MODULE NamePlans ------------------------------
(****************************************************************************)
(* How a file gets its new name: MediaParser, UnifiedAIService, the         *)
(* matching with TMDB and EmbyNamingService, as they are put together by    *)
(* the three previews of the program:                                       *)
(*    "smart"    SmartRenameService.preview (services/media/smart_rename.py)*)
(*    "classic"  RenameService.preview (services/media/rename.py)           *)
(*    "cloud"    smart_rename_cloud_files (api/quark.py)                    *)
(*                                                                          *)
(* The files of a preview have nothing to do with each other, so that one   *)
(* at a time is enough.  What a name says is drawn: its numbers, and what   *)
(* the patterns for them find in it; of a title it is only known how far    *)
(* TMDB's agrees with it.  Confidences are in hundredths.                   *)
(****************************************************************************)
EXTENDS Naturals, FiniteSets

CONSTANTS
    Years,          \* years that names and TMDB know of
    Numbers,        \* seasons and episodes, maybe with 0
    NoNumber,       \* a year, season or episode that is not known
    Algorithms,     \* of {"standard", "ai_enhanced", "ai_only"}
    Threshold       \* confidence_threshold, ai_confidence_threshold: 70

PlansAssumption ==
    /\ Years \subseteq Nat \ {0} /\ Numbers \subseteq Nat /\ NoNumber \notin Years \cup Numbers
    /\ Algorithms \subseteq {"standard", "ai_enhanced", "ai_only"}
    /\ Threshold \in Nat

VARIABLES
    preview,    \* who asks: the service, its algorithm, its media_type
    at,         \* how far the file is
    file,       \* what matters of its name later on
    info,       \* parsed_info, and how sure the parser is
    match,      \* TMDB's best answer, and how sure the match is
    plan        \* the item of the preview

vars == <<preview, at, file, info, match, plan>>

Year     == Years \cup {NoNumber}
Number   == Numbers \cup {NoNumber}
Previews == [service : {"smart", "cloud"}, algorithm : Algorithms, force : BOOLEAN, type : {"auto"}]
            \cup [service : {"classic"}, algorithm : {"standard"}, force : {FALSE},
                  type : {"auto", "movie", "tv"}]

(* What the parser and detect_media_type find: a title, whether anything    *)
(* has been cut off to get it, numbers, a pattern of series, a word of      *)
(* anime.  Every pattern with a season is one of series.                    *)
FileFacts == {f \in [titled : BOOLEAN, cut : BOOLEAN, year : Year, season : Number,
                     episode : Number, series : BOOLEAN, anime : BOOLEAN] :
                 f.season # NoNumber => f.series /\ f.cut}

(* Its numbers go into info; here it is only known that it has them.        *)
Unread  == [series |-> FALSE, anime |-> FALSE, season |-> FALSE, episode |-> FALSE]
Read(f) == [series |-> f.series, anime |-> f.anime,
            season |-> f.season # NoNumber, episode |-> f.episode # NoNumber]

NoInfo  == [titled |-> FALSE, year |-> NoNumber, season |-> NoNumber, episode |-> NoNumber,
            type |-> "none", sure |-> 0, failed |-> FALSE]
NoMatch == [found |-> FALSE, kind |-> "none", agree |-> "nothing", year |-> NoNumber, sure |-> 0]
NoPlan  == [status |-> "none", ask |-> FALSE, form |-> "none", season |-> NoNumber,
            episode |-> NoNumber, year |-> NoNumber]

TypeOK ==
    /\ preview \in Previews
    /\ at \in {"parse", "match", "name", "done"}
    /\ file \in [series : BOOLEAN, anime : BOOLEAN, season : BOOLEAN, episode : BOOLEAN]
    /\ info.year \in Year /\ {info.season, info.episode} \subseteq Number
    /\ {info.sure, match.sure} \subseteq 0 .. 100
    /\ plan.status \in {"none", "matched", "parsed", "skipped"}

Init ==
    /\ preview \in Previews /\ file = Unread
    /\ at = "parse" /\ info = NoInfo /\ match = NoMatch /\ plan = NoPlan

-----------------------------------------------------------------------------
(* A number that counts as there: 0 does not.                               *)
Truthy(n) == n \notin {NoNumber, 0}

(* MediaParser.parse, and how sure _parse_with_algorithm is of it.          *)
ByPattern(f) ==
    [titled |-> f.titled, year |-> f.year, season |-> f.season, episode |-> f.episode,
     type |-> "none", failed |-> FALSE,
     sure |-> 50 + (IF Truthy(f.year) THEN 20 ELSE 0)
                 + (IF Truthy(f.season) \/ Truthy(f.episode) THEN 20 ELSE 0)
                 + (IF f.cut THEN 10 ELSE 0)]

(* UnifiedAIService: what the first provider that is of use answers, with a *)
(* title, and always as sure.                                               *)
Answers == [titled : {TRUE}, year : Year, season : Number, episode : Number,
            type : {"movie", "tv", "anime", "unknown"}, sure : {80}, failed : {FALSE}]

(* parse_with_ai: an answer takes the place of what the patterns have       *)
(* found, as far as it goes, but for the type.                              *)
Merged(f, a) ==
    [titled |-> TRUE, type |-> "none", sure |-> a.sure, failed |-> FALSE,
     year    |-> IF Truthy(a.year) THEN a.year ELSE f.year,
     season  |-> IF a.season # NoNumber THEN a.season ELSE f.season,
     episode |-> IF a.episode # NoNumber THEN a.episode ELSE f.episode]

(* Is an answer asked for, where the patterns come first?                   *)
NeedsAI(f) == preview.force \/ (~Truthy(f.year) /\ f.episode = NoNumber)

Parses(f, i) ==
    /\ file' = Read(f) /\ info' = i
    /\ at' = "match" /\ UNCHANGED <<preview, match, plan>>

ParseAlone(f) == at = "parse" /\ preview.algorithm # "ai_only" /\ Parses(f, ByPattern(f))

ParseWithAI(f) ==
    /\ at = "parse"
    /\ preview.algorithm = "ai_enhanced" \/ preview.force
    /\ preview.algorithm # "ai_only"
    /\ NeedsAI(f)
    /\ \E a \in Answers : Parses(f, Merged(f, a))

(* ai_only: no provider, or no answer in time, and the patterns do.         *)
ParseByAI(f) ==
    /\ at = "parse" /\ preview.algorithm = "ai_only"
    /\ \/ \E a \in Answers : Parses(f, a)
       \/ preview.force /\ \E a \in Answers : Parses(f, Merged(f, a))
       \/ Parses(f, ByPattern(f))

(* The cloud preview goes on with the patterns after an exception.          *)
ParseFails(f) ==
    /\ at = "parse" /\ preview.service = "cloud"
    /\ Parses(f, [ByPattern(f) EXCEPT !.failed = TRUE])

-----------------------------------------------------------------------------
(* detect_media_type                                                        *)
Detected(f) == IF f.anime THEN "anime" ELSE IF f.series THEN "tv" ELSE "movie"

ByNumbers == IF info.season # NoNumber \/ info.episode # NoNumber THEN "tv" ELSE "movie"

(* What TMDB is asked for: films, or series for whatever is not a film.     *)
Hint ==
    CASE preview.service = "smart"                          -> Detected(file)
      [] preview.service = "cloud" /\ info.type # "none"    -> info.type
      [] preview.service = "classic" /\ preview.type # "auto" -> preview.type
      [] OTHER                                              -> ByNumbers

Kind(type) == IF type = "movie" THEN "movie" ELSE "tv"

(* How far the title of the first result agrees with that of the file, in   *)
(* the order of the looks; "original" is one more look of the classic one.  *)
Agreements == {"same", "part", "words", "word", "nothing"}
              \cup (IF preview.service = "classic" THEN {"original"} ELSE {})

TitleScore(agree) ==
    CASE agree = "same"     -> 50
      [] agree = "part"     -> 35
      [] agree = "original" -> 30
      [] agree = "words"    -> 30     \* the same words in another order
      [] agree = "word"     -> 10     \* a third of the words
      [] agree = "nothing"  -> 0

Near(y, z) == y <= z + 1 /\ z <= y + 1
BothKnown(year) == Truthy(info.year) /\ year # NoNumber

(* Wrong on purpose: another year is as good as none.                       *)
YearScoreAnyway(year) ==
    IF BothKnown(year) /\ info.year = year THEN 30 ELSE 10

YearScore(year) ==
    CASE ~BothKnown(year)                              -> 10
      [] BothKnown(year) /\ info.year = year           -> 30
      [] BothKnown(year) /\ info.year # year /\ Near(info.year, year) -> 15
      [] OTHER                                         -> 0

(* _calculate_confidence of the classic one looks at the kind as well.      *)
KindScore(kind) ==
    IF preview.service = "classic"
       /\ kind = (IF Truthy(info.season) \/ Truthy(info.episode) THEN "tv" ELSE "movie")
    THEN 20 ELSE 0

Matches(m) == match' = m /\ at' = "name" /\ UNCHANGED <<preview, file, info, plan>>

(* _match_tmdb, _match_media                                                *)
MatchFound ==
    /\ at = "match" /\ info.titled
    /\ \E agree \in Agreements, year \in Year :
          Matches([found |-> TRUE, kind |-> Kind(Hint), agree |-> agree, year |-> year,
                   sure |-> TitleScore(agree) + YearScore(year) + KindScore(Kind(Hint))])

(* No key, no result, an exception, or a timeout of the cloud preview.      *)
MatchMissing == at = "match" /\ Matches(NoMatch)

-----------------------------------------------------------------------------
(* What the new name says: EmbyNamingService, and _generate_new_name of the *)
(* classic one.  The year of a series is in its folder only.                *)
Film == IF preview.service = "cloud" THEN info.type = "movie" ELSE Kind(Hint) = "movie"

Special ==
    /\ info.episode = NoNumber
    /\ \/ preview.service = "smart" /\ Detected(file) = "anime"
       \/ preview.service = "cloud" /\ info.type = "anime"

(* Wrong on purpose: an anime is always named as a special.                 *)
FormAnime ==
    CASE Film -> "film"
      [] ~Film /\ Detected(file) = "anime" -> "special"
      [] ~Film /\ Detected(file) # "anime" /\ info.season # NoNumber /\ info.episode # NoNumber -> "episode"
      [] OTHER -> "plain"

Form ==
    CASE Film                                                       -> "film"
      [] ~Film /\ Special                                           -> "special"
      [] ~Film /\ ~Special /\ info.season # NoNumber /\ info.episode # NoNumber -> "episode"
      [] ~Film /\ ~Special /\ info.season # NoNumber /\ info.episode = NoNumber
         /\ preview.service # "classic"                             -> "season"
      [] OTHER                                                      -> "plain"

Named(status, ask) ==
    [status |-> status, ask |-> ask, form |-> Form,
     season |-> info.season, episode |-> info.episode,
     year |-> IF match.year # NoNumber THEN match.year ELSE info.year]

Skipped == [NoPlan EXCEPT !.status = "skipped"]

Overall == info.sure + match.sure

(* An item of a preview with confirmation: the mean of both confidences.    *)
PlanAsking ==
    Named(IF match.found THEN "matched" ELSE "parsed",
          Overall < 2 * Threshold \/ ~match.found \/ info.failed)

(* process_file of each preview; the rows of "matched" items are renamed    *)
(* without a question, unless one is to be asked.                           *)
Plan ==
    /\ at = "name"
    /\ plan' = CASE preview.service = "smart" /\ ~info.titled -> Skipped
                 [] preview.service = "classic" ->
                      IF match.found /\ match.sure >= Threshold THEN Named("matched", FALSE)
                      ELSE Skipped
                 [] OTHER -> PlanAsking
    /\ at' = "done"
    /\ UNCHANGED <<preview, file, info, match>>

(* The next file of the preview.                                            *)
NextFile ==
    /\ at = "done"
    /\ UNCHANGED preview /\ file' = Unread
    /\ at' = "parse" /\ info' = NoInfo /\ match' = NoMatch /\ plan' = NoPlan

Next ==
    \/ at = "parse" /\ \E f \in FileFacts :
          ParseAlone(f) \/ ParseWithAI(f) \/ ParseByAI(f) \/ ParseFails(f)
    \/ MatchFound \/ MatchMissing \/ Plan \/ NextFile

Spec == Init /\ [][Next]_vars

-----------------------------------------------------------------------------
Goes == at = "done" /\ plan.status \in {"matched", "parsed"} /\ ~plan.ask

(* What is renamed without a question has been found in TMDB, under a title *)
(* that has something of the file's, and if both know a year and the years  *)
(* are apart it is the very title (smart_rename.py:282-290, 360-393,        *)
(* 519-532; rename.py:191-213, 560-610; api/quark.py:760-769).              *)
DoubtIsAsked ==
    Goes => /\ match.found /\ match.agree # "nothing"
            /\ (BothKnown(match.year) /\ ~Near(info.year, match.year)) => match.agree = "same"

(* A season and an episode that the patterns have found are in the name,    *)
(* unless the user asked for films (smart_rename.py:395-444;                *)
(* rename.py:612-674; emby_naming_service.py:209-277, 399-435).             *)
NumbersKept ==
    /\ at = "done" /\ plan.status \in {"matched", "parsed"}
    /\ preview.service # "cloud" /\ preview.type = "auto" /\ preview.algorithm # "ai_only"
    /\ file.season /\ file.episode
    => plan.form = "episode" /\ plan.season = info.season /\ plan.episode = info.episode

(* What was matched as a film is named as a film, and a series as a series, *)
(* in the previews of the file system.                                      *)
KindsAgree ==
    at = "done" /\ preview.service # "cloud" /\ plan.form # "none" /\ match.found =>
        (plan.form = "film") = (match.kind = "movie")

(* Not kept: in the cloud preview they agree as well; a film that only the  *)
(* patterns have parsed has no type, and is named as a series               *)
(* (api/quark.py:747, smart_rename.py:426).                                 *)
CloudKindsAgree ==
    at = "done" /\ match.found => (plan.form = "film") = (match.kind = "movie")

(* Not kept: an episode without a season keeps its number; the names of all *)
(* episodes of the series are the same (emby_naming_service.py:273-275,     *)
(* rename.py:671-672).                                                      *)
EpisodesApart ==
    at = "done" /\ plan.status = "matched" /\ file.episode => plan.form = "episode"
=============================================================================
