---------------------------------- MODULE Wire ----------------------------------
(***************************************************************************)
(* The layout of a PDU: the header word (msg.cpp) and the options inside   *)
(* its data (Option.cpp).  The other modules keep the fields and drop the  *)
(* layout; the theorems below say what becomes of each field on the way.   *)
(*                                                                         *)
(* The code casts its buffers to uint16_t and uint32_t, so the words have  *)
(* the order of the host; both ends are taken to be little-endian.         *)
(***************************************************************************)
EXTENDS Integers, TLAPS

MAXSTRINGLENGTH == 1000

MAX_SESSION_ID == 16777215

Octet == 0 .. 255

UINT16_MAX == 65535

\* enum MSG_TYPE and enum option_type as the numbers that are sent.
MSG_TYPE == 1 .. 6

option_type == 0 .. 7

\* The data of a message: decode hands on all of it, whatever was written.
Data == [0 .. MAXSTRINGLENGTH -> Octet]

-----------------------------------------------------------------------------
(* msg.cpp.                                                                *)

\* encode: type<<SESSION_ID_SIZE | session_id, behind the tests of both sizes.
Encodable(session_id, data_size) ==
    data_size <= MAXSTRINGLENGTH /\ session_id <= MAX_SESSION_ID

Header(type, session_id) == type * (MAX_SESSION_ID + 1) + session_id

\* encode: memset, then memcpy of data_size bytes.
Padded(bits, data_size) ==
    [i \in 0 .. MAXSTRINGLENGTH |-> IF i < data_size THEN bits[i] ELSE 0]

\* decode: the type above SESSION_ID_SIZE bits; other numbers are refused.
TypeIn(header) == header \div (MAX_SESSION_ID + 1)

SessionIn(header) == header - TypeIn(header) * (MAX_SESSION_ID + 1)

-----------------------------------------------------------------------------
(* Option.cpp.                                                             *)

\* The octets a host lays a 16-bit word out in, and back.
Low(w) == w % 256

High(w) == w \div 256

Word(b, i) == b[i] + 256 * b[i + 1]

\* An option whose value has len octets.
Option(len) == [type : option_type, len : {len}, value : [1 .. len -> Octet]]

Objective_Option(len) ==
    [type : option_type, len : {len}, value : [1 .. len -> Octet],
     loop_count : Octet, flag : Octet]

len_except_value == 4

objective_len_except_value == 6

\* Option::to_bits.
to_bits(o) ==
    [i \in 0 .. (o.len + len_except_value - 1) |->
       CASE i = 0 -> Low(o.type)
         [] i = 1 -> High(o.type)
         [] i = 2 -> Low(o.len)
         [] i = 3 -> High(o.len)
         [] OTHER -> o.value[i - 3]]

\* Objective_Option::to_bits: the third word is loop_count<<8 | flag.
objective_to_bits(o) ==
    [i \in 0 .. (o.len + objective_len_except_value - 1) |->
       CASE i = 0 -> Low(o.type)
         [] i = 1 -> High(o.type)
         [] i = 2 -> Low(o.len)
         [] i = 3 -> High(o.len)
         [] i = 4 -> o.flag
         [] i = 5 -> o.loop_count
         [] OTHER -> o.value[i - 5]]

\* strncpy of n octets of b from position at: after a zero, zeros only.
strncpy(b, at, n) ==
    [i \in 1 .. n |->
       IF \E j \in 1 .. i : b[at + j - 1] = 0 THEN 0 ELSE b[at + i - 1]]

\* Option::parse_bits.  The switch leaves the type unassigned when the word is
\* none of option_type; every theorem about the parsers has it among them.
parse_bits(b) ==
    [type  |-> Word(b, 0),
     len   |-> Word(b, 2),
     value |-> strncpy(b, len_except_value, Word(b, 2))]

\* Objective_Option::parse_bits.
objective_parse_bits(b) ==
    [type       |-> Word(b, 0),
     len        |-> Word(b, 2),
     value      |-> strncpy(b, objective_len_except_value, Word(b, 2)),
     loop_count |-> High(Word(b, 4)),
     flag       |-> Low(Word(b, 4))]

\* What strncpy makes of a value.
UpToZero(v, n) == [i \in 1 .. n |-> IF \E j \in 1 .. i : v[j] = 0 THEN 0 ELSE v[i]]

\* A C string, or one that was: nothing but zeros after the first zero.
ZeroEnds(v, n) == \A i, j \in 1 .. n : i <= j /\ v[i] = 0 => v[j] = 0

\* content::operator==: strcmp finds no difference up to the end of a string.
SameString(a, b) ==
    \E n \in 0 .. MAXSTRINGLENGTH : a[n] = 0 /\ \A i \in 0 .. n : a[i] = b[i]

-----------------------------------------------------------------------------
(* What survives.                                                          *)

\* decode gives back the type and the session id of every message encode
\* accepts, and the header fits its 32 bits (msg.cpp:53-55, 83-110).
THEOREM HeaderSurvives ==
    ASSUME NEW type \in MSG_TYPE, NEW session_id \in Nat,
           Encodable(session_id, 0)
    PROVE  /\ Header(type, session_id) \in Nat /\ Header(type, session_id) <= 4294967295
           /\ TypeIn(Header(type, session_id)) = type
           /\ SessionIn(Header(type, session_id)) = session_id
  BY SMT DEF MSG_TYPE, Encodable, Header, TypeIn, SessionIn, MAX_SESSION_ID,
             MAXSTRINGLENGTH

LEMMA OctetsAreNaturals == Octet \subseteq Nat
BY DEF Octet

\* A 16-bit word is what its octets say.
LEMMA WordOfOctets ==
    ASSUME NEW w \in Nat, w <= UINT16_MAX
    PROVE  /\ Low(w) \in Octet /\ High(w) \in Octet
           /\ Low(w) + 256 * High(w) = w
  BY SMT DEF Low, High, UINT16_MAX, Octet

\* Octets make a word that splits into them again.
LEMMA OctetsOfWord ==
    ASSUME NEW lo \in Octet, NEW hi \in Octet
    PROVE  Low(lo + 256 * hi) = lo /\ High(lo + 256 * hi) = hi
  BY SMT DEF Low, High, Octet

\* The first two words of a PDU that an option or an objective was written to.
LEMMA TypeAndLength ==
    ASSUME NEW type \in option_type, NEW len \in Nat, len <= UINT16_MAX,
           NEW b, b[0] = Low(type), b[1] = High(type),
           b[2] = Low(len), b[3] = High(len)
    PROVE  Word(b, 0) = type /\ Word(b, 2) = len
<1>1. /\ Word(b, 0) = Low(type) + 256 * High(type)
      /\ Word(b, 2) = Low(len) + 256 * High(len)
  BY SMT DEF Word
<1>2. type \in Nat /\ type <= UINT16_MAX
  BY SMT DEF option_type, UINT16_MAX
<1> QED
  BY ONLY <1>1, <1>2, len \in Nat, len <= UINT16_MAX, WordOfOctets

\* The header of a plain option as it stands in the PDU.
LEMMA OptionHeader ==
    ASSUME NEW len \in Nat, len + len_except_value <= MAXSTRINGLENGTH,
           NEW o \in Option(len)
    PROVE  LET b == Padded(to_bits(o), len + len_except_value) IN
           /\ b[0] = Low(o.type) /\ b[1] = High(o.type)
           /\ b[2] = Low(len) /\ b[3] = High(len)
           /\ Word(b, 0) = o.type /\ Word(b, 2) = len
<1> DEFINE b == Padded(to_bits(o), len + len_except_value)
<1>1. o.type \in option_type /\ o.len = len /\ len <= UINT16_MAX
  BY SMT DEF Option, UINT16_MAX, len_except_value, MAXSTRINGLENGTH
<1>2. \A i \in 0 .. (len + 3) : b[i] = to_bits(o)[i]
  BY SMT DEF Padded, len_except_value, MAXSTRINGLENGTH
<1> HIDE DEF b
<1>3. b[0] = Low(o.type) BY <1>1, <1>2, SMT DEF to_bits, len_except_value
<1>4. b[1] = High(o.type) BY <1>1, <1>2, SMT DEF to_bits, len_except_value
<1>5. b[2] = Low(len) BY <1>1, <1>2, SMT DEF to_bits, len_except_value
<1>6. b[3] = High(len) BY <1>1, <1>2, SMT DEF to_bits, len_except_value
<1>7. Word(b, 0) = o.type /\ Word(b, 2) = len
  BY ONLY <1>1, <1>3, <1>4, <1>5, <1>6, len \in Nat, TypeAndLength
<1> QED
  BY <1>3, <1>4, <1>5, <1>6, <1>7 DEF b

\* The same of an objective, whose third word holds flag and loop count.
LEMMA ObjectiveHeader ==
    ASSUME NEW len \in Nat, len + objective_len_except_value <= MAXSTRINGLENGTH,
           NEW o \in Objective_Option(len)
    PROVE  LET b == Padded(objective_to_bits(o), len + objective_len_except_value)
           IN  /\ b[4] = o.flag /\ b[5] = o.loop_count
               /\ Word(b, 0) = o.type /\ Word(b, 2) = len
<1> DEFINE b == Padded(objective_to_bits(o), len + objective_len_except_value)
<1>1. o.type \in option_type /\ o.len = len /\ len <= UINT16_MAX
  BY SMT DEF Objective_Option, UINT16_MAX, objective_len_except_value,
             MAXSTRINGLENGTH
<1>2. \A i \in 0 .. (len + 5) : b[i] = objective_to_bits(o)[i]
  BY SMT DEF Padded, objective_len_except_value, MAXSTRINGLENGTH
<1> USE DEF objective_to_bits, objective_len_except_value
<1> HIDE DEF b
<1>3. b[0] = Low(o.type) BY <1>1, <1>2, SMT
<1>4. b[1] = High(o.type) BY <1>1, <1>2, SMT
<1>5. b[2] = Low(len) BY <1>1, <1>2, SMT
<1>6. b[3] = High(len) BY <1>1, <1>2, SMT
<1>7. b[4] = o.flag BY <1>1, <1>2, SMT
<1>8. b[5] = o.loop_count BY <1>1, <1>2, SMT
<1>9. Word(b, 0) = o.type /\ Word(b, 2) = len
  BY ONLY <1>1, <1>3, <1>4, <1>5, <1>6, len \in Nat, TypeAndLength
<1> QED
  BY ONLY <1>7, <1>8, <1>9 DEF b

\* A plain option (Accept, Decline, Waiting_time, Locator) comes through
\* to_bits, encode, decode and parse_bits with its type and length, and with its
\* value up to the first zero octet (Option.cpp:73-85, 119-163).
THEOREM OptionSurvives ==
    ASSUME NEW len \in Nat, len + len_except_value <= MAXSTRINGLENGTH,
           NEW o \in Option(len)
    PROVE  LET b == Padded(to_bits(o), len + len_except_value) IN
           parse_bits(b) = [type |-> o.type, len |-> len,
                            value |-> UpToZero(o.value, len)]
<1> DEFINE b == Padded(to_bits(o), len + len_except_value)
<1>1. /\ o.type \in Nat /\ o.type <= UINT16_MAX
      /\ o.len = len /\ len <= UINT16_MAX
      /\ o.value \in [1 .. len -> Octet]
  BY SMT DEF Option, option_type, UINT16_MAX, len_except_value, MAXSTRINGLENGTH
<1>2. \A i \in 0 .. (len + 3) : b[i] = to_bits(o)[i]
  BY SMT DEF Padded, len_except_value, MAXSTRINGLENGTH
<1>3. \A i \in 1 .. len : b[i + 3] = o.value[i]
  <2>1. SUFFICES ASSUME NEW i \in 1 .. len
                 PROVE  b[i + 3] = o.value[i]
    OBVIOUS
  <2>2. i + 3 \in 0 .. (len + 3) /\ (i + 3) - 3 = i
    OBVIOUS
  <2>3. b[i + 3] = to_bits(o)[i + 3]
    BY ONLY <1>2, <2>2
  <2>4. to_bits(o)[i + 3] = o.value[(i + 3) - 3]
    BY ONLY <1>1, len \in Nat, i \in 1 .. len, SMT DEF to_bits, len_except_value
  <2> QED
    BY ONLY <2>2, <2>3, <2>4
<1>4. Word(b, 0) = o.type /\ Word(b, 2) = len
  BY OptionHeader
<1>5. strncpy(b, len_except_value, len) = UpToZero(o.value, len)
  BY <1>3, SMT DEF strncpy, UpToZero, len_except_value
<1> QED
  BY <1>4, <1>5 DEF parse_bits

\* An objective (Negotiation, Synchronization, Discovery) comes through with all
\* its fields, its value up to the first zero octet (Option.cpp:95-108, 174-219).
THEOREM ObjectiveSurvives ==
    ASSUME NEW len \in Nat, len + objective_len_except_value <= MAXSTRINGLENGTH,
           NEW o \in Objective_Option(len)
    PROVE  LET b == Padded(objective_to_bits(o), len + objective_len_except_value)
           IN  objective_parse_bits(b) =
                 [type |-> o.type, len |-> len, value |-> UpToZero(o.value, len),
                  loop_count |-> o.loop_count, flag |-> o.flag]
<1> DEFINE b == Padded(objective_to_bits(o), len + objective_len_except_value)
<1>1. /\ o.type \in Nat /\ o.type <= UINT16_MAX
      /\ o.len = len /\ len <= UINT16_MAX
      /\ o.value \in [1 .. len -> Octet]
      /\ o.loop_count \in Octet /\ o.flag \in Octet
  BY SMT DEF Objective_Option, option_type, UINT16_MAX, objective_len_except_value,
             MAXSTRINGLENGTH
<1>2. \A i \in 0 .. (len + 5) : b[i] = objective_to_bits(o)[i]
  BY SMT DEF Padded, objective_len_except_value, MAXSTRINGLENGTH
<1>3. /\ b[4] = o.flag /\ b[5] = o.loop_count
      /\ Word(b, 0) = o.type /\ Word(b, 2) = len
  BY ObjectiveHeader
<1>4. \A i \in 1 .. len : b[i + 5] = o.value[i]
  <2>1. SUFFICES ASSUME NEW i \in 1 .. len
                 PROVE  b[i + 5] = o.value[i]
    OBVIOUS
  <2>2. i + 5 \in 0 .. (len + 5) /\ (i + 5) - 5 = i
    OBVIOUS
  <2>3. b[i + 5] = objective_to_bits(o)[i + 5]
    BY ONLY <1>2, <2>2
  <2>4. objective_to_bits(o)[i + 5] = o.value[(i + 5) - 5]
    BY ONLY <1>1, len \in Nat, i \in 1 .. len, SMT
       DEF objective_to_bits, objective_len_except_value
  <2> QED
    BY ONLY <2>2, <2>3, <2>4
<1>5. High(Word(b, 4)) = o.loop_count /\ Low(Word(b, 4)) = o.flag
  BY <1>1, <1>3, OctetsOfWord DEF Word
<1>6. strncpy(b, objective_len_except_value, len) = UpToZero(o.value, len)
  BY <1>4, SMT DEF strncpy, UpToZero, objective_len_except_value
<1> QED
  BY <1>3, <1>5, <1>6 DEF objective_parse_bits

\* strncpy does nothing to a value that is zero from its first zero octet on.
LEMMA StringUnchanged ==
    ASSUME NEW len \in Nat, NEW v \in [1 .. len -> Octet], ZeroEnds(v, len)
    PROVE  UpToZero(v, len) = v
<1>1. \A i \in 1 .. len : (\E j \in 1 .. i : v[j] = 0) => v[i] = 0
  BY SMT DEF ZeroEnds
<1>2. \A i \in 1 .. len : (IF \E j \in 1 .. i : v[j] = 0 THEN 0 ELSE v[i]) = v[i]
  BY <1>1
<1> QED
  BY <1>2 DEF UpToZero

\* What the peer parses is what was written, field for field, when the value is a
\* C string, as the ASA's values are: of a plain option by Option's pair of
\* functions, of an objective by Objective_Option's (Option.cpp:73-108, 119-219).
THEOREM StringsSurvive ==
    ASSUME NEW len \in Nat
    PROVE  /\ \A o \in Option(len) :
                /\ len + len_except_value <= MAXSTRINGLENGTH
                /\ ZeroEnds(o.value, len)
                => parse_bits(Padded(to_bits(o), len + len_except_value)) = o
           /\ \A o \in Objective_Option(len) :
                /\ len + objective_len_except_value <= MAXSTRINGLENGTH
                /\ ZeroEnds(o.value, len)
                => objective_parse_bits(Padded(objective_to_bits(o),
                                               len + objective_len_except_value)) = o
<1>1. ASSUME NEW o \in Option(len), len + len_except_value <= MAXSTRINGLENGTH,
             ZeroEnds(o.value, len)
      PROVE  parse_bits(Padded(to_bits(o), len + len_except_value)) = o
  <2>1. parse_bits(Padded(to_bits(o), len + len_except_value))
          = [type |-> o.type, len |-> len, value |-> UpToZero(o.value, len)]
    BY <1>1, OptionSurvives
  <2>2. o.value \in [1 .. len -> Octet]
    BY DEF Option
  <2>3. UpToZero(o.value, len) = o.value
    BY <1>1, <2>2, StringUnchanged
  <2>4. o = [type |-> o.type, len |-> len, value |-> o.value]
    BY DEF Option
  <2> QED
    BY ONLY <2>1, <2>3, <2>4
<1>2. ASSUME NEW o \in Objective_Option(len),
             len + objective_len_except_value <= MAXSTRINGLENGTH,
             ZeroEnds(o.value, len)
      PROVE  objective_parse_bits(Padded(objective_to_bits(o),
                                         len + objective_len_except_value)) = o
  <2>1. objective_parse_bits(Padded(objective_to_bits(o),
                                    len + objective_len_except_value))
          = [type |-> o.type, len |-> len, value |-> UpToZero(o.value, len),
             loop_count |-> o.loop_count, flag |-> o.flag]
    BY <1>2, ObjectiveSurvives
  <2>2. o.value \in [1 .. len -> Octet]
    BY DEF Objective_Option
  <2>3. UpToZero(o.value, len) = o.value
    BY <1>2, <2>2, StringUnchanged
  <2>4. o = [type |-> o.type, len |-> len, value |-> o.value,
             loop_count |-> o.loop_count, flag |-> o.flag]
    BY DEF Objective_Option
  <2> QED
    BY ONLY <2>1, <2>3, <2>4
<1> QED
  BY <1>1, <1>2

\* The number of an option type fits the first octet.
LEMMA SmallWord ==
    ASSUME NEW lo \in Octet, NEW hi \in Octet, lo + 256 * hi \in option_type
    PROVE  hi = 0
<1>1. lo \in Nat /\ hi \in Nat
  BY OctetsAreNaturals
<1>2. lo + 256 * hi <= 7
  BY DEF option_type
<1> QED
  BY ONLY <1>1, <1>2, SMT

\* operator== compares bodies with strcmp and so sees their option types only:
\* what Key of the module Gdnp keeps of a message (common_structs.h:45-50).
THEOREM EqualitySeesType ==
    ASSUME NEW a \in Data, Word(a, 0) \in option_type,
           NEW b \in Data, Word(b, 0) \in option_type
    PROVE  SameString(a, b) <=> parse_bits(a).type = parse_bits(b).type
<1>1. /\ a[0] \in Octet /\ a[1] \in Octet /\ b[0] \in Octet /\ b[1] \in Octet
  BY SMT DEF Data, MAXSTRINGLENGTH
<1>2. a[1] = 0 /\ b[1] = 0
  <2>1. a[1] = 0
    BY <1>1, SmallWord DEF Word
  <2>2. b[1] = 0
    BY <1>1, SmallWord DEF Word
  <2> QED
    BY ONLY <2>1, <2>2
<1>3. parse_bits(a).type = parse_bits(b).type <=> a[0] = b[0]
  <2>1. parse_bits(a).type = a[0] + 256 * a[1] /\ parse_bits(b).type = b[0] + 256 * b[1]
    BY SMT DEF parse_bits, Word
  <2>2. a[0] \in Int /\ b[0] \in Int
    BY <1>1 DEF Octet
  <2>3. parse_bits(a).type = a[0] /\ parse_bits(b).type = b[0]
    BY <1>2, <2>1, <2>2, SMT
  <2> QED
    BY <2>3
<1>4. SameString(a, b) => a[0] = b[0]
  BY SMT DEF SameString, MAXSTRINGLENGTH
<1>5. a[0] = b[0] => SameString(a, b)
  <2> SUFFICES ASSUME a[0] = b[0]
               PROVE  \E n \in 0 .. MAXSTRINGLENGTH :
                        a[n] = 0 /\ \A i \in 0 .. n : a[i] = b[i]
    BY DEF SameString
  <2>1. \A i \in 0 .. 1 : a[i] = b[i]
    BY <1>2, SMT
  <2>2. 1 \in 0 .. MAXSTRINGLENGTH
    BY DEF MAXSTRINGLENGTH
  <2>3. a[1] = 0
    BY ONLY <1>2
  <2> QED
    BY ONLY <2>1, <2>2, <2>3
<1> QED
  BY <1>3, <1>4, <1>5

\* do_negotiate reads every body as a plain option and as an objective, and
\* ServerSession::run reads every body as an objective, before either knows
\* which it is: the reading of the other kind gets the type and the length that
\* were written too, so the branches that test the type are the right ones
\* (Client_TCP.cpp:236-245, ServerSession.cpp:229).
THEOREM BothReadingsAgree ==
    ASSUME NEW len \in Nat
    PROVE  /\ \A o \in Option(len) :
                len + len_except_value <= MAXSTRINGLENGTH =>
                LET b == Padded(to_bits(o), len + len_except_value) IN
                objective_parse_bits(b).type = o.type
                  /\ objective_parse_bits(b).len = o.len
           /\ \A o \in Objective_Option(len) :
                len + objective_len_except_value <= MAXSTRINGLENGTH =>
                LET b == Padded(objective_to_bits(o),
                                len + objective_len_except_value) IN
                parse_bits(b).type = o.type /\ parse_bits(b).len = o.len
<1>1. ASSUME NEW o \in Option(len), len + len_except_value <= MAXSTRINGLENGTH
      PROVE  LET b == Padded(to_bits(o), len + len_except_value) IN
             objective_parse_bits(b).type = o.type
               /\ objective_parse_bits(b).len = o.len
  <2> DEFINE b == Padded(to_bits(o), len + len_except_value)
  <2>1. Word(b, 0) = o.type /\ Word(b, 2) = len
    BY <1>1, OptionHeader
  <2>2. o.len = len
    BY DEF Option
  <2> QED
    BY <2>1, <2>2 DEF objective_parse_bits
<1>2. ASSUME NEW o \in Objective_Option(len),
             len + objective_len_except_value <= MAXSTRINGLENGTH
      PROVE  LET b == Padded(objective_to_bits(o),
                             len + objective_len_except_value) IN
             parse_bits(b).type = o.type /\ parse_bits(b).len = o.len
  <2> DEFINE b == Padded(objective_to_bits(o), len + objective_len_except_value)
  <2>1. Word(b, 0) = o.type /\ Word(b, 2) = len
    BY <1>2, ObjectiveHeader
  <2>2. o.len = len
    BY DEF Objective_Option
  <2> QED
    BY <2>1, <2>2 DEF parse_bits
<1> QED
  BY <1>1, <1>2

=============================================================================
