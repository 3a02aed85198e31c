------------------------------ MODULE GCEImage ------------------------------
(***************************************************************************)
(* Image resolution for one Start (gceProvider.getImage, backend/gce.go):  *)
(* the legacy strategy's candidate languages, each looked up with          *)
(* Images.List and a name filter, and the env/api strategy's selector name *)
(* with the "default" sentinel.  imageByFilter keeps the greatest name in  *)
(* Go's byte order.                                                        *)
(*                                                                         *)
(* Names are sequences of byte values and stand for the part after the     *)
(* common "travis-ci-" prefix.  A filter "name eq ^R" or "^R.+" is the     *)
(* record [re |-> R, more |-> BOOLEAN]; the cloud matches it against the   *)
(* whole name.                                                             *)
(***************************************************************************)
EXTENDS Naturals, Sequences, SequencesExt

CONSTANTS
    Catalogs,         \* the sets of image names the project may hold
    Languages,        \* StartAttributes.Language values
    DefaultLanguage,  \* p.defaultLanguage (DEFAULT_LANGUAGE)
    DefaultImage,     \* p.defaultImage (IMAGE_DEFAULT) as a filter
    SelectorTypes,    \* p.imageSelectorType values, checked by newGCEProvider
    SelectorNames     \* filters the env or api selector may return

NoMap == <<>>         \* LANGUAGE_MAP_{LANG} is not set
Sentinel == [re |-> <<100, 101, 102, 97, 117, 108, 116>>, more |-> FALSE]
                      \* the selector's name "default"
NoImage == <<>>       \* a nil *compute.Image

Filter(r, m) == [re |-> r, more |-> m]

Filters == {Filter(r, m) : r \in Languages \cup {DefaultLanguage}
                             \cup {f.re : f \in SelectorNames \cup {DefaultImage, Sentinel}},
                           m \in BOOLEAN}

ASSUME /\ SelectorTypes \subseteq {"legacy", "env", "api"}
       /\ DefaultImage \in Filters /\ SelectorNames \subseteq Filters

VARIABLES
    catalog,       \* the images Images.List can return
    selectorType,
    language,
    langMap,       \* the value of LANGUAGE_MAP_{LANG}, or NoMap
    pc,            \* "getImage", "legacy", "select", "query" or "done"
    candidates,    \* candidateLangs
    filter,        \* the filter of the pending env/api lookup
    tried,         \* the lookups made so far, in order: [filter, err]
    image,         \* the image getImage returns
    err            \* the error getImage returns

vars == <<catalog, selectorType, language, langMap, pc, candidates, filter,
          tried, image, err>>

Names == UNION Catalogs

Errs == {"none", "transport", "noImage", "selector"}

TypeOK ==
    /\ catalog \in Catalogs
    /\ selectorType \in SelectorTypes
    /\ language \in Languages
    /\ langMap \in Languages \cup {NoMap}
    /\ pc \in {"getImage", "legacy", "select", "query", "done"}
    /\ candidates \in Seq(Languages \cup {DefaultLanguage})
    /\ filter \in Filters \cup {NoImage}
    /\ tried \in Seq([filter : Filters, err : Errs])
    /\ image \in Names \cup {NoImage}
    /\ err \in Errs

-----------------------------------------------------------------------------
(* The cloud's side: a filter matches the whole name.                      *)

Matches(n, f) ==
    /\ IsPrefix(f.re, n)
    /\ IF f.more THEN Len(n) > Len(f.re) ELSE Len(n) = Len(f.re)

(* sort.Strings: Go compares strings byte by byte, a proper prefix first.  *)
RECURSIVE ByteLess(_, _)
ByteLess(a, b) ==
    \/ a = <<>> /\ b # <<>>
    \/ /\ a # <<>> /\ b # <<>>
       /\ \/ Head(a) < Head(b)
          \/ Head(a) = Head(b) /\ ByteLess(Tail(a), Tail(b))

\* Mutant: the first name of the sorted list instead of the last.
ImageByFilterFirst(cat, f) ==
    Head(SetToSortSeq({n \in cat : Matches(n, f)}, ByteLess))

(* imageByFilter on a listing with at least one item: sort the names and  *)
(* take the last.                                                          *)
ImageByFilter(cat, f) ==
    Last(SetToSortSeq({n \in cat : Matches(n, f)}, ByteLess))

\* fmt.Sprintf(gceImageTravisCIPrefixFilter, language)
LangFilter(l) == Filter(l, TRUE)

(* One Images.List call and what imageByFilter makes of it: a transport   *)
(* error, "no image found with filter", or the greatest name.              *)
Lookup(f, failed) ==
    IF failed THEN [err |-> "transport", image |-> NoImage]
    ELSE IF \A n \in catalog : ~Matches(n, f)
         THEN [err |-> "noImage", image |-> NoImage]
         ELSE [err |-> "none", image |-> ImageByFilter(catalog, f)]

-----------------------------------------------------------------------------
Init ==
    /\ catalog \in Catalogs
    /\ selectorType \in SelectorTypes
    /\ language \in Languages
    /\ langMap \in Languages \cup {NoMap}
    /\ pc = "getImage"
    /\ candidates = <<>>
    /\ filter = NoImage
    /\ tried = <<>>
    /\ image = NoImage
    /\ err = "none"

(* getImage's switch; for legacy, legacyImageSelect's candidate list: the  *)
(* mapped language if LANGUAGE_MAP_{LANG} is set, else the job's, then the *)
(* default language.                                                       *)
GetImage ==
    /\ pc = "getImage"
    /\ IF selectorType \in {"env", "api"}
       THEN pc' = "select" /\ UNCHANGED candidates
       ELSE /\ pc' = "legacy"
            /\ candidates' = << IF langMap # NoMap THEN langMap ELSE language,
                                DefaultLanguage >>
    /\ UNCHANGED <<catalog, selectorType, language, langMap, filter, tried,
                   image, err>>

\* Mutant: the loop goes on to the next candidate after a match.
LegacyQueryNoBreak ==
    /\ pc = "legacy"
    /\ \E failed \in BOOLEAN :
        LET i == Len(tried) + 1
            f == LangFilter(candidates[i])
            r == Lookup(f, failed)
        IN /\ tried' = Append(tried, [filter |-> f, err |-> r.err])
           /\ image' = r.image
           /\ err' = r.err
           /\ pc' = IF i = Len(candidates) THEN "done" ELSE "legacy"
    /\ UNCHANGED <<catalog, selectorType, language, langMap, candidates, filter>>

(* One turn of the candidate loop: image, err = imageForLanguage(language);*)
(* break on err == nil.  After the last candidate its image and error are  *)
(* returned.                                                               *)
LegacyQuery ==
    /\ pc = "legacy"
    /\ \E failed \in BOOLEAN :
        LET i == Len(tried) + 1
            f == LangFilter(candidates[i])
            r == Lookup(f, failed)
        IN /\ tried' = Append(tried, [filter |-> f, err |-> r.err])
           /\ image' = r.image
           /\ err' = r.err
           /\ pc' = IF r.err = "none" \/ i = Len(candidates)
                    THEN "done" ELSE "legacy"
    /\ UNCHANGED <<catalog, selectorType, language, langMap, candidates, filter>>

\* Mutant: no return after a failed Select; the lookup uses "^".
ImageSelectNoErrReturn ==
    /\ pc = "select"
    /\ \E name \in SelectorNames \cup {Sentinel}, failed \in BOOLEAN :
        /\ pc' = "query"
        /\ filter' = IF failed THEN Filter(<<>>, FALSE)
                     ELSE IF name = Sentinel THEN DefaultImage ELSE name
    /\ UNCHANGED <<catalog, selectorType, language, langMap, candidates, tried,
                   image, err>>

(* imageSelect: the selector's Select fails, or names an image; "default"  *)
(* stands for p.defaultImage.                                              *)
ImageSelect ==
    /\ pc = "select"
    /\ \E name \in SelectorNames \cup {Sentinel}, failed \in BOOLEAN :
        IF failed
        THEN pc' = "done" /\ err' = "selector" /\ UNCHANGED filter
        ELSE /\ pc' = "query"
             /\ filter' = IF name = Sentinel THEN DefaultImage ELSE name
             /\ UNCHANGED err
    /\ UNCHANGED <<catalog, selectorType, language, langMap, candidates, tried,
                   image>>

\* imageSelect's imageByFilter(fmt.Sprintf("name eq ^%s", imageName)).
SelectQuery ==
    /\ pc = "query"
    /\ \E failed \in BOOLEAN :
        LET r == Lookup(filter, failed)
        IN /\ tried' = Append(tried, [filter |-> filter, err |-> r.err])
           /\ image' = r.image
           /\ err' = r.err
    /\ pc' = "done"
    /\ UNCHANGED <<catalog, selectorType, language, langMap, candidates, filter>>

Next == GetImage \/ LegacyQuery \/ ImageSelect \/ SelectQuery

Spec == Init /\ [][Next]_vars /\ WF_vars(Next)

-----------------------------------------------------------------------------
(* Reference order: a is lexicographically below b when, after their       *)
(* longest common prefix, a ends or has the smaller byte.                  *)
LexBelow(a, b) ==
    \E k \in 0..Len(a) :
        /\ k <= Len(b)
        /\ SubSeq(a, 1, k) = SubSeq(b, 1, k)
        /\ \/ k = Len(a) /\ k < Len(b)
           \/ k < Len(a) /\ k < Len(b) /\ a[k + 1] < b[k + 1]

\* The newest image for a filter: the matching name no other one exceeds.
Newest(cat, f) ==
    CHOOSE n \in cat : /\ Matches(n, f)
                       /\ \A m \in cat : Matches(m, f) => m = n \/ LexBelow(m, n)

Dash == 45   \* '-', which ends the language in "travis-ci-{lang}-..."

(* An image getImage returns is the newest one matching the filter of the  *)
(* last lookup: imageByFilter's sort-and-take-last is the greatest name.   *)
ResolvesToNewest ==
    (pc = "done" /\ image # NoImage) =>
        /\ err = "none"
        /\ image = Newest(catalog, Last(tried).filter)

(* legacyImageSelect: the first candidate whose lookup succeeds wins, and  *)
(* when none does the last lookup's error is returned, so every lookup     *)
(* before the last one failed and the result is the last one's.            *)
FirstSuccessWins ==
    pc = "done" /\ tried # <<>> =>
        /\ err = Last(tried).err
        /\ \A i \in 1..Len(tried) - 1 : tried[i].err # "none"

(* Spec 4.3, failure modes: a transport error of Images.List is returned   *)
(* by the resolver (legacyImageSelect's loop goes on after any error).     *)
TransportErrorPropagates ==
    (pc = "done" /\ \E i \in 1..Len(tried) : tried[i].err = "transport") =>
        err = "transport"

(* The legacy image for language L is one of L's own images,               *)
(* travis-ci-L-..., not one of a language whose name starts with L (the    *)
(* filter ^travis-ci-L.+ of imageForLanguage matches both).                *)
LegacyImageOfLanguage ==
    (pc = "done" /\ selectorType = "legacy" /\ image # NoImage) =>
        IsPrefix(Last(tried).filter.re \o <<Dash>>, image)

=============================================================================
