----------------------------- MODULE DnsResponse ----------------------------
(***************************************************************************)
(* The way the resolver finds the address in an answer: it reads the       *)
(* message byte by byte behind the header, over the questions and over the *)
(* answers that are of another type (Ethernet/src/Dns.cpp ProcessResponse, *)
(* the part behind the header).                                            *)
(***************************************************************************)
EXTENDS Integers, Sequences, SequencesExt

CONSTANT Messages   (* the messages: questions and answers as records        *)

Byte == 0 .. 255
Word16 == 0 .. 65535

(* A label is shorter than the two bits that mark a pointer.               *)
Label == { l \in Seq(Byte) : Len(l) \in 1 .. 63 }
Name  == [labels : Seq(Label), pointer : BOOLEAN]
Answer == [name : Name, type : Word16, class : Word16,
           data : { d \in Seq(Byte) : Len(d) \in Word16 }]

(* What the constants have to be; MCDhcpLease assumes it of its values.  A *)
(* question repeats the one that was asked, which has no pointer, and a    *)
(* message without an answer does not get this far.                        *)
DnsResponseAssumption ==
  \A m \in Messages :
    /\ m.questions \in Seq(Name) /\ m.answers \in Seq(Answer)
    /\ \A k \in 1 .. Len(m.questions) : ~m.questions[k].pointer
    /\ m.answers # <<>>

VARIABLES
  msg,     (* history: what the server wrote                                 *)
  bytes,   (* the same as it is on the wire, behind the header               *)
  pos,     (* the byte read next                                             *)
  i,       (* questions or answers passed                                    *)
  len,     (* the variable the length of a label is read into                *)
  pc,      (* what comes next                                                *)
  result   (* the address, or what is returned in its place                  *)

dnsVars == <<msg, bytes, pos, i, len, pc, result>>

-----------------------------------------------------------------------------
(* The format of a message.  A name is a sequence of labels, ended by an   *)
(* empty one or, in an answer, by a pointer to an earlier name.            *)
TypeA == 1
ClassIn == 1
Pointer == <<192, 12>>

(* What is returned in the place of an address.                            *)
WeirdSize == <<-9>>
NoAnswer  == <<-10>>

TwoBytes(n) == <<n \div 256, n % 256>>

NameBytes(name) ==
  FlattenSeq([k \in 1 .. Len(name.labels) |-> <<Len(name.labels[k])>> \o name.labels[k]])
    \o (IF name.pointer THEN Pointer ELSE <<0>>)

QuestionBytes(q) == NameBytes(q) \o TwoBytes(TypeA) \o TwoBytes(ClassIn)

AnswerBytes(a) ==
  NameBytes(a.name) \o TwoBytes(a.type) \o TwoBytes(a.class) \o <<0, 0, 1, 44>>
    \o TwoBytes(Len(a.data)) \o a.data

Encoded(m) ==
  FlattenSeq([k \in 1 .. Len(m.questions) |-> QuestionBytes(m.questions[k])])
    \o FlattenSeq([k \in 1 .. Len(m.answers) |-> AnswerBytes(m.answers[k])])

Init ==
  /\ msg \in Messages /\ bytes = Encoded(msg)
  /\ pos = 1 /\ i = 0 /\ len = 0 /\ pc = "question" /\ result = <<>>

-----------------------------------------------------------------------------
(* A read behind the end of the message gives nothing, and leaves the      *)
(* variable it reads into as it was.                                       *)
Advance(n) == pos' = IF pos + n > Len(bytes) THEN Len(bytes) + 1 ELSE pos + n

ReadLen == IF pos <= Len(bytes) THEN bytes[pos] ELSE len

Word(k) == 256 * bytes[pos + k] + bytes[pos + k + 1]

(* while (len--): a label is skipped and len is 255 afterwards.            *)
SkipLabel ==
  /\ Advance(1 + ReadLen) /\ len' = 255
  /\ UNCHANGED <<msg, bytes, i, pc, result>>

NextQuestion ==
  /\ pc = "question"
  /\ pc' = IF i < Len(msg.questions) THEN "qname" ELSE "answer"
  /\ i' = IF pc' = "answer" THEN 0 ELSE i + 1
  /\ UNCHANGED <<msg, bytes, pos, len, result>>

QuestionLabel == pc = "qname" /\ ReadLen # 0 /\ SkipLabel

(* Type and class are jumped over.                                         *)
QuestionEnd ==
  /\ pc = "qname" /\ ReadLen = 0
  /\ Advance(5) /\ len' = 0 /\ pc' = "question"
  /\ UNCHANGED <<msg, bytes, i, result>>

(* Answers that are left over: those of the header are all looked at.      *)
NextAnswer ==
  /\ pc = "answer"
  /\ IF i < Len(msg.answers)
     THEN pc' = "aname" /\ i' = i + 1 /\ UNCHANGED result
     ELSE pc' = "done" /\ result' = NoAnswer /\ UNCHANGED i
  /\ UNCHANGED <<msg, bytes, pos, len>>

(* LABEL_COMPRESSION_MASK.                                                 *)
IsPointer(n) == n >= 64

AnswerLabel == pc = "aname" /\ ~IsPointer(ReadLen) /\ ReadLen # 0 /\ SkipLabel

AnswerNameEnd ==
  /\ pc = "aname" /\ (IsPointer(ReadLen) \/ ReadLen = 0)
  /\ Advance(IF IsPointer(ReadLen) THEN 2 ELSE 1)
  /\ len' = 0 /\ pc' = "record"
  /\ UNCHANGED <<msg, bytes, i, result>>

WrongSize(n) == n # 4

(* Type, class, time to live and length, then the data.                    *)
Record ==
  /\ pc = "record"
  /\ IF Word(0) = TypeA /\ Word(2) = ClassIn
     THEN /\ result' = IF WrongSize(Word(8)) THEN WeirdSize
                       ELSE SubSeq(bytes, pos + 10, pos + 9 + Word(8))
          /\ pc' = "done" /\ Advance(Len(bytes))
     ELSE /\ Advance(10 + Word(8)) /\ pc' = "answer" /\ UNCHANGED result
  /\ UNCHANGED <<msg, bytes, i, len>>

Done == pc = "done" /\ UNCHANGED dnsVars

Next ==
  \/ NextQuestion \/ QuestionLabel \/ QuestionEnd
  \/ NextAnswer \/ AnswerLabel \/ AnswerNameEnd \/ Record \/ Done

Spec == Init /\ [][Next]_dnsVars

(* The call goes on until it returns.                                      *)
FairSpec == Spec /\ WF_dnsVars(Next)

-----------------------------------------------------------------------------
TypeOK ==
  /\ bytes \in Seq(0 .. 255) /\ pos \in 1 .. Len(bytes) + 1
  /\ i \in 0 .. Len(msg.questions) + Len(msg.answers) /\ len \in 0 .. 255
  /\ pc \in {"question", "qname", "answer", "aname", "record", "done"}
  /\ result \in {<<>>, NoAnswer, WeirdSize} \cup [1 .. 4 -> 0 .. 255]

(* The address found is that of the first answer that carries one,         *)
(* whatever the names, questions and other records before it look like.    *)
CarriesAddress(a) == a.type = TypeA /\ a.class = ClassIn

FirstAddressFound ==
  pc = "done" =>
    \/ /\ \A k \in 1 .. Len(msg.answers) : ~CarriesAddress(msg.answers[k])
       /\ result = NoAnswer
    \/ \E k \in 1 .. Len(msg.answers) :
         /\ CarriesAddress(msg.answers[k])
         /\ \A j \in 1 .. k - 1 : ~CarriesAddress(msg.answers[j])
         /\ result = IF Len(msg.answers[k].data) = 4 THEN msg.answers[k].data
                                                     ELSE WeirdSize

(* The loops over the names and records of a complete message end.         *)
ResponseIsRead == <>(pc = "done")

=============================================================================
