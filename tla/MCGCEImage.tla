----------------------------- MODULE MCGCEImage -----------------------------
(***************************************************************************)
(* Model-checking harness for GCEImage.  Names are byte sequences after    *)
(* "travis-ci-": languages c and cp (cpp) and the default m (minimal), two *)
(* c images, a cp image and two m images; every subset is a catalog.       *)
(***************************************************************************)
EXTENDS GCEImage

LangC == <<99>>          \* "c"
LangCp == <<99, 112>>    \* "cp"
LangM == <<109>>         \* "m"

ImgC0 == <<99, 45, 48>>        \* "c-0"
ImgC1 == <<99, 45, 49>>        \* "c-1"
ImgCp0 == <<99, 112, 45, 48>>  \* "cp-0"
ImgM0 == <<109, 45, 48>>       \* "m-0"
ImgM1 == <<109, 45, 49>>       \* "m-1"

MCCatalogs == SUBSET {ImgC0, ImgC1, ImgCp0, ImgM0, ImgM1}

MCLanguages == {LangC, LangCp}

\* IMAGE_DEFAULT "travis-ci-mega.+" in the same shape: ^m.+
MCDefaultImage == Filter(LangM, TRUE)

\* An exact name, c-1, and a pattern, ^c.+
MCSelectorNames == {Filter(ImgC1, FALSE), Filter(LangC, TRUE)}

\* The lookup of c when the catalog also has cpp images.
MCCollisionCatalogs == {{ImgC0, ImgCp0, ImgM0}}

MCCollisionLanguages == {LangC}

=============================================================================
