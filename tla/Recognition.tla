----------------------------- MODULE Recognition -----------------------------
(***************************************************************************)
(* From a photo to a plate: the recogniser of the ANPR service, asked      *)
(* through POST /anpr/reconhecer-camera and /reconhecer-imagem, and the    *)
(* external provider (google-vision.provider.ts).                          *)
(*                                                                         *)
(* What the detector and the readers see is chosen freely: how many crops  *)
(* a photo has and which text each reader returns.  The scores of readings *)
(* are free too, so that any plate read may be the most confident one.     *)
(* A text is a sequence of words, a word a sequence of characters in upper *)
(* case; "-" is any character that is neither letter nor digit.  Both      *)
(* sides correct texts with the same rules (app/anpr/plate.py and          *)
(* anpr/plate.ts), which are one definition here.  Boxes are left out, and *)
(* so is the order in which photos wait: InferenceScheduler has it.        *)
(***************************************************************************)
EXTENDS Naturals, FiniteSets, SequencesExt

CONSTANTS
    ReadTexts,    \* texts the readers of the service may return
    VisionTexts,  \* texts the external provider may return
    MaxCrops,     \* bound: detections in a photo
    NoPlate       \* null

Letters == {"A", "B", "C", "D", "E", "F", "G", "H", "I", "J", "K", "L", "M",
            "N", "O", "P", "Q", "R", "S", "T", "U", "V", "W", "X", "Y", "Z"}

Digits == {"0", "1", "2", "3", "4", "5", "6", "7", "8", "9"}

DigitToLetter ==
    [d \in Digits |-> CASE d = "0" -> "O" [] d = "1" -> "I" [] d = "2" -> "Z" [] d = "3" -> "E" [] d = "4" -> "A"
                      [] d = "5" -> "S" [] d = "6" -> "G" [] d = "7" -> "T" [] d = "8" -> "B" [] d = "9" -> "Q"]

LetterToDigit ==
    [c \in {"O", "Q", "D", "I", "L", "J", "Z", "E", "A", "S", "G", "T", "B"} |->
        CASE c \in {"O", "Q", "D"} -> "0" [] c \in {"I", "L", "J"} -> "1" [] c = "Z" -> "2" [] c = "E" -> "3"
          [] c = "A" -> "4" [] c = "S" -> "5" [] c = "G" -> "6" [] c = "T" -> "7" [] c = "B" -> "8"]

Alphanumeric == Letters \cup Digits
Size == 7  \* characters of a plate

\* MERCOSUL_POS and ANTIGA_POS.
Pattern == [mercosul |-> <<"L", "L", "L", "N", "L", "N", "N">>,
            antiga   |-> <<"L", "L", "L", "N", "N", "N", "N">>]

ASSUME RecognitionAssumption ==
    /\ \A t \in ReadTexts \cup VisionTexts : t # <<>> /\ t \in Seq(Seq(Alphanumeric \cup {"-"}))
    /\ MaxCrops \in Nat
    /\ NoPlate \notin Alphanumeric
    /\ NoPlate \notin [value: [1 .. Size -> Alphanumeric], format: DOMAIN Pattern]

VARIABLES
    stage,       \* "idle", "detect", "crops", "frame", "best", "done"
    options,     \* the switches of app/config.py that bear on reading
    detections,  \* how many crops the photo has
    crops,       \* how many are still to be read in this pass
    prepared,    \* whether this pass reads the crops after contrast and upscale
    candidates,  \* the texts read so far that are plates
    heard,       \* history: the texts that readers returned
    reply        \* what the caller was told: an HTTP status, or an error or a
                 \* confidence (in %) of the provider, and the plate

recognitionVars == <<stage, options, detections, crops, prepared, candidates, heard, reply>>

-----------------------------------------------------------------------------
(* Correction of what was read.                                            *)

\* MERCOSUL_RE and ANTIGA_RE.
Fits(word, format) ==
    /\ Len(word) = Size
    /\ \A i \in 1 .. Size : word[i] \in IF Pattern[format][i] = "L" THEN Letters ELSE Digits

\* One position: the character as it is, its correction, or none.
Fix(character, kind) ==
    LET right == IF kind = "L" THEN Letters ELSE Digits
        table == IF kind = "L" THEN DigitToLetter ELSE LetterToDigit
    IN  IF character \in right THEN character
        ELSE IF character \in DOMAIN table THEN table[character] ELSE NoPlate

\* _ajustar, ajustar: the word in this format, and the corrections it took.
\* What is corrected in every position fits: the regex that follows accepts it.
Adjusted(word, format) == [i \in 1 .. Size |-> Fix(word[i], Pattern[format][i])]

\* Mutant: making a letter of a digit is not counted.
DigitsCorrected(word, format) ==
    Cardinality({i \in 1 .. Size : Pattern[format][i] = "N" /\ Adjusted(word, format)[i] # word[i]})

Corrections(word, format) == Cardinality({i \in 1 .. Size : Adjusted(word, format)[i] # word[i]})

\* _classificar, classificar: exact, or corrected as little as possible when
\* two digits at least were read.
Classify(word) ==
    LET exact == {f \in DOMAIN Pattern : Fits(word, f)}
        near == {f \in DOMAIN Pattern : \A i \in 1 .. Size : Adjusted(word, f)[i] # NoPlate}
        few == {f \in near : \A g \in near : Corrections(word, f) <= Corrections(word, g)}
        plate(formats) == LET f == IF "mercosul" \in formats THEN "mercosul" ELSE "antiga"
                          IN  [value |-> Adjusted(word, f), format |-> f]
    IN  IF Len(word) # Size THEN NoPlate
        ELSE IF exact # {} THEN plate(exact)
        ELSE IF Cardinality({i \in 1 .. Size : word[i] \in Digits}) < 2 \/ near = {} THEN NoPlate
        ELSE plate(few)

Clean(word) == SelectSeq(word, LAMBDA character : character \in Alphanumeric)

\* normalizar_placa, normalizarPlaca: the whole text, then each of its words.
Normalise(text) ==
    LET pieces == <<Clean(FlattenSeq(text))>> \o [k \in DOMAIN text |-> Clean(text[k])]
        legible == {k \in DOMAIN pieces : Classify(pieces[k]) # NoPlate}
    IN  IF legible = {} THEN NoPlate ELSE Classify(pieces[Min(legible)])

\* plateSchema, which recognitionSchema and observationSchema require of a plate.
ApiAccepts(plate) == \E f \in DOMAIN Pattern : Fits(plate, f)

\* normalizePlate: what a gatekeeper types is never corrected.
TypedPlate(word) ==
    LET plain == IF Len(word) = Size + 1 /\ word[4] = "-" THEN RemoveAt(word, 4) ELSE word
    IN  IF Fits(word, "mercosul") \/ Fits(plain, "antiga") THEN plain ELSE NoPlate

-----------------------------------------------------------------------------
(* The recogniser of the service.                                          *)

Readable(texts) == {text \in texts : Normalise(text) # NoPlate}

Done(answer) == reply' = answer /\ stage' = "done"

Refusal(status) == [status |-> status, plate |-> NoPlate, raw |-> <<>>]

\* SnapshotClient: the address of the camera, or the first usual one that
\* answers with an image, in the time a capture may take.
CaptureOutcomes(addressKnown) ==
    {"image", "failed"} \cup IF addressKnown THEN {} ELSE {"unconfigured"}

\* The photo, captured by a client of its own or sent in the request.
SendPhoto ==
    /\ stage = "idle"
    /\ options' \in [rereadCrop: BOOLEAN, prepare: BOOLEAN, wholeFrame: BOOLEAN]
    /\ \/ \E addressKnown \in BOOLEAN : \E outcome \in CaptureOutcomes(addressKnown) :
             \/ outcome = "image" /\ stage' = "detect" /\ UNCHANGED reply
             \/ outcome = "unconfigured" /\ Done(Refusal("400"))
             \/ outcome # "unconfigured" /\ Done(Refusal("502"))  \* or what came is no image
       \/ stage' = "detect" /\ UNCHANGED reply
       \/ Done(Refusal("400"))  \* not the base64 of an image
    /\ UNCHANGED <<detections, crops, prepared, candidates, heard>>

\* detectar_placas.
Detect ==
    /\ stage = "detect"
    /\ \E found \in 0 .. MaxCrops :
          /\ detections' = found /\ crops' = found
          /\ stage' = IF found = 0 THEN "frame" ELSE "crops"
    /\ UNCHANGED <<options, prepared, candidates, heard, reply>>

Hear(texts) == heard' = heard \cup texts /\ candidates' = candidates \cup Readable(texts)

\* What the second reading of a crop adds: its rows, and two rows as one text.
Rows(rows) ==
    Range(rows) \cup
        IF Len(rows) # 2 THEN {}
        ELSE {Front(rows[1]) \o <<Last(rows[1]) \o Head(rows[2])>> \o Tail(rows[2])}

\* _read_crop, for the next crop: it is read again when no plate came of it.
\* A crop without pixels is not read.
ReadCrop ==
    /\ stage = "crops" /\ crops > 0
    /\ \E direct \in SeqOf(ReadTexts, 1) :
       \E rows \in IF options.rereadCrop /\ Readable(Range(direct)) = {} THEN SeqOf(ReadTexts, 2)
                   ELSE {<<>>} :
          Hear(Range(direct) \cup Rows(rows))
    /\ crops' = crops - 1
    /\ UNCHANGED <<stage, options, detections, prepared, reply>>

\* _reconhecer_yolo: the crops are read once more, prepared, when they gave
\* no plate; reconhecer: then the whole frame.
CropsRead ==
    /\ stage = "crops" /\ crops = 0
    /\ IF candidates = {} /\ options.prepare /\ ~prepared
       THEN prepared' = TRUE /\ crops' = detections /\ UNCHANGED stage
       ELSE /\ stage' = IF candidates = {} THEN "frame" ELSE "best"
            /\ UNCHANGED <<prepared, crops>>
    /\ UNCHANGED <<options, detections, candidates, heard, reply>>

\* _reconhecer_paddle_completo.
ReadFrame ==
    /\ stage = "frame"
    /\ \E texts \in IF options.wholeFrame THEN SeqOf(ReadTexts, 2) ELSE {<<>>} : Hear(Range(texts))
    /\ stage' = "best"
    /\ UNCHANGED <<options, detections, crops, prepared, reply>>

\* reconhecer_melhor, the route of the service (422 without a plate), and
\* AnprService.post, which checks the answer.
Answer ==
    /\ stage = "best"
    /\ \/ candidates = {} /\ Done(Refusal("422"))
       \/ \E best \in candidates :
             LET plate == Normalise(best)
             IN  Done(IF ApiAccepts(plate.value) THEN [status |-> "200", plate |-> plate, raw |-> best]
                      ELSE Refusal("502"))
    /\ UNCHANGED <<options, detections, crops, prepared, candidates, heard>>

\* The service is busy, late or out of reach (502), or its reader fails (500).
GiveUp ==
    /\ stage \in {"detect", "crops", "frame", "best"}
    /\ \E status \in {"500", "502"} : Done(Refusal(status))
    /\ UNCHANGED <<options, detections, crops, prepared, candidates, heard>>

-----------------------------------------------------------------------------
(* The external provider.                                                  *)

ProviderErrors == {"config", "timeout", "network", "rate_limited", "http", "invalid"}

\* extractPlateFromText: the plate stands in the text as a token of its own.
IsToken(value, text) ==
    \E k \in DOMAIN text : \E i \in 1 .. Len(text[k]) - Size + 1 :
        /\ SubSeq(text[k], i, i + Size - 1) = value
        /\ i = 1 \/ text[k][i - 1] \notin Alphanumeric
        /\ i + Size > Len(text[k]) \/ text[k][i + Size] \notin Alphanumeric

ExtractPlate(text) ==
    LET plate == Normalise(text)
    IN  IF plate = NoPlate THEN Refusal("no_plate")
        ELSE [status |-> IF IsToken(plate.value, text) THEN "95" ELSE "80", plate |-> plate, raw |-> text]

\* GoogleVisionProvider.recognize.
AskProvider ==
    /\ stage = "idle"
    /\ \/ \E error \in ProviderErrors : Done(Refusal(error)) /\ UNCHANGED heard
       \/ Done(Refusal("no_plate")) /\ UNCHANGED heard  \* no text in the answer
       \/ \E text \in VisionTexts : Done(ExtractPlate(text)) /\ heard' = {text}
    /\ UNCHANGED <<options, detections, crops, prepared, candidates>>

-----------------------------------------------------------------------------
RecognitionInit ==
    /\ stage = "idle" /\ reply = Refusal("none")
    /\ options = [rereadCrop |-> TRUE, prepare |-> TRUE, wholeFrame |-> FALSE]
    /\ detections = 0 /\ crops = 0 /\ prepared = FALSE /\ candidates = {} /\ heard = {}

RecognitionNext ==
    SendPhoto \/ Detect \/ ReadCrop \/ CropsRead \/ ReadFrame \/ Answer \/ GiveUp \/ AskProvider

RecognitionSpec == RecognitionInit /\ [][RecognitionNext]_recognitionVars

-----------------------------------------------------------------------------
(* The reference: what a text can mean, whatever the order of the code.     *)

Pieces(text) == {Clean(FlattenSeq(text))} \cup {Clean(text[k]) : k \in DOMAIN text}

\* The plates that confusions between letters and digits make of a word.
Repairs(word) ==
    LET confused(c) == IF c \in Digits THEN DigitToLetter[c] ELSE LetterToDigit[c]
        confusable == {i \in 1 .. Size : word[i] \in Digits \cup DOMAIN LetterToDigit}
        changed(S) == [i \in 1 .. Size |-> IF i \in S THEN confused(word[i]) ELSE word[i]]
    IN  {plate \in {changed(S) : S \in IF Len(word) = Size THEN SUBSET confusable ELSE {}} :
             \E f \in DOMAIN Pattern : Fits(plate, f)}

Distance(v, w) == Cardinality({i \in 1 .. Size : v[i] # w[i]})

Nearest(word) ==
    {p \in Repairs(word) : \A q \in Repairs(word) : Distance(word, p) <= Distance(word, q)}

Legible(word) ==
    /\ Len(word) = Size /\ Repairs(word) # {}
    /\ \/ \E p \in Repairs(word) : Distance(word, p) = 0
       \/ Cardinality({i \in 1 .. Size : word[i] \in Digits}) >= 2

\* A plate that is answered is one of the plates of its format nearest to a
\* piece of a text that was read, and both the form a gatekeeper types it in
\* and the check on observations take it as it is; "no plate" is answered only
\* when no piece of any text read, in any pass, was legible
\* (plate.py:93, plate.ts:115, recognizer.py:97, google-vision.provider.ts:47).
AnswersStand ==
    stage = "done" =>
        /\ reply.plate # NoPlate =>
              /\ \E piece \in Pieces(reply.raw) : reply.plate.value \in Nearest(piece)
              /\ Fits(reply.plate.value, reply.plate.format)
              /\ TypedPlate(reply.plate.value) = reply.plate.value
        /\ reply.status \in {"422", "no_plate"} =>
              \A text \in heard : \A piece \in Pieces(text) : ~Legible(piece)
=============================================================================
