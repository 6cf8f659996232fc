----------------------------- MODULE WebRequest -----------------------------
(***************************************************************************)
(* The web server of the old hub (CheckAndDoWebServer in                   *)
(* ECU_Interface_Arduino_Due/webServer_and_SD_stuff.ino): it reads the     *)
(* request of one client character by character into a file on the SD      *)
(* card, decides after each whether the request is complete, and then      *)
(* answers from the first line of the file.                                *)
(*                                                                         *)
(* A request is a sequence of tokens: "G" for GET, "P" "O" for POST (one   *)
(* longer), the name, "H" for HTTP/1.1; "C" "L" for the sixteen characters *)
(* of Content-Length:, "0" to "2" for the digits of a length, "CR", "LF",    *)
(* and any other token for a character that means nothing.                 *)
(***************************************************************************)
EXTENDS Integers, Sequences, SequencesExt

CONSTANTS
  Requests,    (* records: text, name, method, and length: "none", "found",  *)
               (* or "last" if nothing of the header comes behind it         *)
  LengthChars  (* 8: characters of a length that are kept                    *)

VARIABLES
  request,           (* what the client has to say                           *)
  sent,              (* how much of it has come to the W5100                 *)
  open,              (* the client keeps its side open                       *)
  timedOut,          (* TIMEOUT milliseconds have passed since time1         *)
  pc,                (* "idle", "reading", or "stuck" in the loop of line 60 *)
  file,              (* httpREQ.txt                                          *)
  isGETreq, currentLineIsBlank, currentLineIsContentLength,
  counter, contentLength, fullRequestSize,
  answer             (* what the client was sent                             *)

clientVars == <<request, sent, open>>
parseVars  == <<isGETreq, currentLineIsBlank, currentLineIsContentLength,
                counter, contentLength, fullRequestSize>>
webVars    == <<clientVars, parseVars, timedOut, pc, file, answer>>

-----------------------------------------------------------------------------
Pattern == <<"C", "L">>

Init ==
  /\ request \in Requests /\ sent = 0 /\ open = TRUE
  /\ timedOut = FALSE /\ pc = "idle" /\ file = <<>> /\ answer = "none"
  /\ isGETreq = FALSE /\ currentLineIsBlank = TRUE
  /\ currentLineIsContentLength = FALSE
  /\ counter = 0 /\ contentLength = <<>> /\ fullRequestSize = 0

(* The locals of CheckAndDoWebServer: nothing of a call is left after it.  *)
FreshLocals ==
  /\ isGETreq' = FALSE /\ currentLineIsBlank' = TRUE
  /\ currentLineIsContentLength' = FALSE
  /\ counter' = 0 /\ contentLength' = <<>> /\ fullRequestSize' = 0
  /\ timedOut' = FALSE

NumRead == IF pc = "idle" THEN 0 ELSE Len(file)

ClientSends ==
  /\ open /\ sent < Len(request.text)
  /\ sent' = sent + 1
  /\ UNCHANGED <<request, open, parseVars, timedOut, pc, file, answer>>

ClientCloses ==
  /\ open /\ open' = FALSE
  /\ UNCHANGED <<request, sent, parseVars, timedOut, pc, file, answer>>

TimePasses ==
  /\ pc = "reading" /\ ~timedOut /\ timedOut' = TRUE
  /\ UNCHANGED <<clientVars, parseVars, pc, file, answer>>

(* Another client, when the server is done with this one.                  *)
NextClient ==
  /\ pc = "idle" /\ ~open
  /\ request' \in Requests /\ sent' = 0 /\ open' = TRUE /\ answer' = "none"
  /\ FreshLocals
  /\ UNCHANGED <<pc, file>>

-----------------------------------------------------------------------------
(* The definitions with a suffix are faulty variants of the operation they *)
(* precede.                                                                *)

NewFile == <<>>

(* webServer.available() has a client.                                     *)
Accept ==
  /\ pc = "idle" /\ open /\ sent > 0 /\ answer = "none"
  /\ pc' = "reading" /\ file' = NewFile
  /\ FreshLocals
  /\ UNCHANGED <<clientVars, answer>>

Digits == [d \in {"0", "1", "2"} |-> CASE d = "0" -> 0 [] d = "1" -> 1 [] d = "2" -> 2]

(* The blank that ends the pattern is the first character kept.            *)
Atoi(chars) ==
  IF Len(chars) > 1 /\ chars[2] \in DOMAIN Digits THEN Digits[chars[2]] ELSE 0

(* The characters of the pattern are looked for one after the other, with  *)
(* others between them.                                                    *)
Matches(c) ==
  /\ counter < Len(Pattern) /\ fullRequestSize = 0
  /\ c = Pattern[counter + 1]

(* Lines 35 to 50, for the character c, the one on place size.             *)
LengthLine(c, size) ==
  LET matched == Matches(c)
      inLine  == IF matched THEN counter + 1 = Len(Pattern) ELSE currentLineIsContentLength
      keep    == c # "CR" /\ Len(contentLength) < LengthChars
  IN /\ counter' = IF matched THEN counter + 1 ELSE counter
     /\ currentLineIsContentLength' = (inLine /\ keep)
     /\ contentLength' = IF inLine /\ keep THEN Append(contentLength, c) ELSE contentLength
     /\ fullRequestSize' = IF inLine /\ ~keep THEN size + Atoi(contentLength) + 2
                                             ELSE fullRequestSize

(* One byte too many.                                                      *)
BodyIsThere_Late(size, full) == size > full + 1

BodyIsThere(size, full) == size > full

BlankLine(c) == c = "LF" /\ currentLineIsBlank

RequestIsComplete(c, size) ==
  IF isGETreq' THEN BlankLine(c)
               ELSE fullRequestSize' > 0 /\ BodyIsThere(size, fullRequestSize')

FirstLine(text) == SubSeq(text, 1, SelectInSeq(text, LAMBDA c : c = "CR") - 1)

NameStart(isGet) == IF isGet THEN 2 ELSE 3

(* Lines 63 to 73: all but the method, the slash and HTTP/1.1.             *)
RequestedFile(text, isGet) ==
  LET line == FirstLine(text) IN SubSeq(line, NameStart(isGet), Len(line) - 1)

(* Lines 79 to 136.                                                        *)
Answer(name) ==
  IF name = <<>> THEN "index"
  ELSE IF Last(name) # "asl" THEN "file"
  ELSE IF name = <<"in", "asl">> THEN "inputs" ELSE "script"

(* The time is asked for only when a character has come.                   *)
AnswerNow(c, size) == RequestIsComplete(c, size) \/ timedOut

(* One pass of the loop with a character there. Without the end of the     *)
(* first line in the file, the loop of line 60 reads behind the end of it  *)
(* for ever.                                                               *)
ReadChar ==
  LET c    == request.text[NumRead + 1]
      size == Len(file) + 1
  IN /\ pc = "reading" /\ NumRead < sent
     /\ file' = Append(file, c)
     /\ isGETreq' = IF size = 1 THEN c = "G" ELSE isGETreq
     /\ IF isGETreq'
          THEN UNCHANGED <<counter, contentLength, fullRequestSize, currentLineIsContentLength>>
          ELSE LengthLine(c, size)
     /\ currentLineIsBlank' = IF c = "LF" THEN TRUE
                              ELSE IF c = "CR" THEN currentLineIsBlank ELSE FALSE
     /\ IF ~AnswerNow(c, size) THEN UNCHANGED <<pc, answer, open>>
        ELSE IF "CR" \notin ToSet(file')
          THEN pc' = "stuck" /\ UNCHANGED <<answer, open>>
          ELSE /\ answer' = Answer(RequestedFile(file', isGETreq'))
               /\ pc' = "idle" /\ open' = FALSE
     /\ UNCHANGED <<request, sent, timedOut>>

Connected == open \/ NumRead < sent

LoopEnds ==
  /\ pc = "reading" /\ ~Connected
  /\ pc' = "idle"
  /\ UNCHANGED <<clientVars, parseVars, timedOut, file, answer>>

(* What a request is. Its first line has method and name. That of a GET    *)
(* ends with its first blank line; what the server takes for the length of *)
(* a POST is not more than there is, and just that when it comes last.     *)
Method(r) == IF r.method = "GET" THEN <<"G">> ELSE <<"P", "O">>

StartLine(r) == Method(r) \o r.name \o <<"H", "CR">>

Blank(text, n) ==
  \E j \in 0 .. n : /\ j = 0 \/ text[j] = "LF"
                   /\ \A i \in j + 1 .. n : text[i] = "CR"

(* The pattern ends on the place b, and the characters kept before e.      *)
LengthIsAt(text, a, b, e) ==
  /\ text[a] = "C" /\ \A i \in 1 .. a - 1 : text[i] # "C"
  /\ text[b] = "L" /\ \A i \in a .. b - 1 : text[i] # "L"
  /\ text[e] = "CR" \/ e = b + LengthChars
  /\ e <= b + LengthChars /\ \A i \in b .. e - 1 : text[i] # "CR"

WholeSize(text, b, e) == e + Atoi(SubSeq(text, b, e - 1)) + 3

TellsLength(r, a, b, e) ==
  /\ a < b /\ b < e /\ LengthIsAt(r.text, a, b, e)
  /\ WholeSize(r.text, b, e) <= Len(r.text)
  /\ r.length = "last" => WholeSize(r.text, b, e) = Len(r.text)

WellFormed(r) ==
  LET t == r.text IN
  /\ IsPrefix(StartLine(r), t) /\ "CR" \notin ToSet(r.name)
  /\ r.method = "GET" =>
       \A i \in 1 .. Len(t) : t[i] = "LF" /\ Blank(t, i - 1) <=> i = Len(t)
  /\ r.method = "POST" /\ r.length = "none" =>
       \A i, j \in 1 .. Len(t) : t[i] = "C" /\ t[j] = "L" => j < i
  /\ r.method = "POST" /\ r.length # "none" =>
       \E a, b, e \in 1 .. Len(t) : TellsLength(r, a, b, e)

(* What the constants have to be; MCSizeRegister assumes it of its values. *)
WebAssumption ==
  /\ Requests \subseteq [text : Seq(STRING), name : Seq(STRING),
                         method : {"GET", "POST"}, length : {"none", "found", "last"}]
  /\ \A r \in Requests : WellFormed(r)
  /\ LengthChars \in Nat \ {0}

Next ==
  \/ ClientSends \/ ClientCloses \/ TimePasses \/ NextClient
  \/ Accept \/ ReadChar \/ LoopEnds

Spec == Init /\ [][Next]_webVars

(* The loop of the server goes round. A client may be silent for as long   *)
(* as it likes; in the end it closes.                                      *)
FairSpec ==
  /\ Spec /\ WF_webVars(ReadChar) /\ WF_webVars(LoopEnds)
  /\ WF_webVars(ClientCloses)

-----------------------------------------------------------------------------
TypeOK ==
  /\ request \in Requests /\ sent \in 0 .. Len(request.text)
  /\ {open, timedOut, isGETreq, currentLineIsBlank, currentLineIsContentLength} \subseteq BOOLEAN
  /\ pc \in {"idle", "reading", "stuck"}
  /\ answer \in {"none", "index", "inputs", "script", "file"}
  /\ counter \in 0 .. Len(Pattern) /\ Len(contentLength) <= LengthChars
  /\ fullRequestSize \in Nat
  /\ pc # "idle" => IsPrefix(file, request.text)

(* The server answers in time only what it has read to the end: not after  *)
(* the first line of a GET, and not before the last byte of a POST, whose  *)
(* length comes in its last header.                                        *)
AnsweredWhenWhole ==
  answer # "none" /\ ~timedOut /\ request.length # "found" => file = request.text

(* Whatever came before on the card, and whether the request was whole or  *)
(* was cut by the timeout, the answer is for the name that was asked for.  *)
GetsWhatItAsked ==
  answer # "none" => answer = Answer(request.name)

(* A request that has been read to its end is answered then: the server    *)
(* waits for no byte that does not come. For a POST this rests on the      *)
(* search for the pattern that is never started again: it has found it at  *)
(* the latest where the header ends, though maybe before.                  *)
WholeIsAnswered ==
  pc = "reading" /\ (request.method = "GET" \/ request.length # "none")
    => file # request.text

RequestsAnswered ==
  TypeOK /\ AnsweredWhenWhole /\ GetsWhatItAsked /\ WholeIsAnswered

(* The server comes back to the loop of the hub, once the client closes,   *)
(* unless the timeout met a file without a first line.                     *)
ComesBack ==
  pc = "reading" ~> (pc = "idle" \/ (pc = "stuck" /\ timedOut /\ "CR" \notin ToSet(file)))

=============================================================================
