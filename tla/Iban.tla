--------------------------------- MODULE Iban ----------------------------------
(***************************************************************************)
(* The IBAN field of the bank sheet (app/src/app/bank/page.tsx) and the        *)
(* checks of app/src/lib/iban.ts that stand between a mistyped account and a   *)
(* transfer nobody can call back.                                             *)
(*                                                                         *)
(* A character is its value in the checksum: 0..9 a digit, 10..35 a capital,   *)
(* 36..61 the same letter in lower case; the rest have numbers of their own.   *)
(***************************************************************************)
EXTENDS SequencesExt, Integers

CONSTANTS Accounts,   \* the IBANs somebody means to enter
          MaxLayout   \* bound: changes of spacing and case
AccountsAreText == \A a \in Accounts : a \in Seq(0 .. 35)

VARIABLES intended,   \* the account somebody means
          typed,      \* the text in the field before it is formatted
          layout,     \* changes of layout so far
          slips       \* typing mistakes so far

vars == <<intended, typed, layout, slips>>

Digit == 0 .. 9
Capital == 10 .. 35
Small == 36 .. 61
Space == 62
Dash == 63
Other == 64
IsGap(c) == c \in {Space, Dash}

Letters == <<"A", "B", "C", "D", "E", "F", "G", "H", "I", "J", "K", "L", "M",
             "N", "O", "P", "Q", "R", "S", "T", "U", "V", "W", "X", "Y", "Z">>

SEPA_IBAN_LENGTH ==
  [AD |-> 24, AT |-> 20, AL |-> 28, BE |-> 16, BG |-> 22, CH |-> 21, CY |-> 28,
   CZ |-> 24, DE |-> 22, DK |-> 18, EE |-> 20, ES |-> 24, FI |-> 18, FR |-> 27,
   GB |-> 22, GI |-> 23, GR |-> 27, HR |-> 21, HU |-> 28, IE |-> 22, IS |-> 26,
   IT |-> 27, LI |-> 21, LT |-> 20, LU |-> 20, LV |-> 21, MC |-> 27, MD |-> 24,
   ME |-> 22, MK |-> 19, MT |-> 31, NL |-> 18, NO |-> 15, PL |-> 28, PT |-> 25,
   RO |-> 24, RS |-> 22, SE |-> 24, SI |-> 19, SK |-> 24, SM |-> 27, VA |-> 22]

-----------------------------------------------------------------------------
ToCapital(c) == IF c \in Small THEN c - 26 ELSE c
normalizeIban(raw) ==
  LET Kept(c) == ~IsGap(c)
      kept == SelectSeq(raw, Kept)
  IN  [i \in DOMAIN kept |-> ToCapital(kept[i])]

formatIban(raw) ==
  LET iban == normalizeIban(raw)
      spaces == IF iban = <<>> THEN 0 ELSE (Len(iban) - 1) \div 4
  IN  [i \in 1 .. Len(iban) + spaces |->
         IF i % 5 = 0 THEN Space ELSE iban[i - i \div 5]]

mod97(iban) ==
  LET rearranged == SubSeq(iban, 5, Len(iban)) \o SubSeq(iban, 1, 4)
      Shift(rest, c) == (rest * (IF c \in Digit THEN 10 ELSE 100) + c) % 97
  IN  FoldLeft(Shift, 0, rearranged)

country(iban) ==
  IF iban[1] \in Capital /\ iban[2] \in Capital
  THEN Letters[iban[1] - 9] \o Letters[iban[2] - 9]
  ELSE "none"
LastFour(iban) == SubSeq(iban, Len(iban) - 3, Len(iban))

NotZero(iban) == mod97(iban) # 0
ChecksumFits(iban) == iban[3] \in Digit /\ iban[4] \in Digit /\ mod97(iban) = 1

Fail(error) == [ok |-> FALSE, error |-> error]
validateIban(raw) ==
  LET iban == normalizeIban(raw)
  IN  IF iban = <<>> THEN Fail("EMPTY")
      ELSE IF \E i \in DOMAIN iban : iban[i] \notin Digit \cup Capital
           THEN Fail("BAD_CHARS")
      ELSE IF Len(iban) < 5 THEN Fail("TOO_SHORT")
      ELSE IF country(iban) \notin DOMAIN SEPA_IBAN_LENGTH THEN Fail("NOT_SEPA")
      ELSE IF Len(iban) # SEPA_IBAN_LENGTH[country(iban)] THEN Fail("BAD_LENGTH")
      ELSE IF ~ChecksumFits(iban) THEN Fail("BAD_CHECKSUM")
      ELSE [ok |-> TRUE, normalized |-> iban, country |-> country(iban),
            last4 |-> LastFour(iban)]

-----------------------------------------------------------------------------
(* The sheet formats what is typed, enables Save when it is valid and sends it *)
(* normalized; the server validates it again.                                  *)
field == formatIban(typed)
check == validateIban(field)
SentToServer == normalizeIban(field)
Saved == check.ok /\ validateIban(SentToServer).ok

Init ==
  /\ intended \in Accounts
  /\ typed = intended
  /\ layout = 0
  /\ slips = 0

(* The same account written another way.                                      *)
Relaid(text) ==
  /\ layout < MaxLayout /\ slips = 0
  /\ typed' = text
  /\ layout' = layout + 1
  /\ UNCHANGED <<intended, slips>>

Gap(i, g) == Relaid(InsertAt(typed, i, g))
LowerCase(i) ==
  /\ typed[i] \in Capital
  /\ Relaid([typed EXCEPT ![i] = @ + 26])

(* One mistake at the keyboard.                                                *)
Slipped(text) ==
  /\ slips = 0
  /\ typed' = text
  /\ slips' = 1
  /\ UNCHANGED <<intended, layout>>

Alike(c) == IF c \in Digit THEN Digit ELSE IF c \in Capital THEN Capital ELSE {}

Mistype(i) ==
  \E c \in Alike(typed[i]) \ {typed[i]} : Slipped([typed EXCEPT ![i] = c])
Transpose(i) ==
  /\ i < Len(typed)
  /\ typed[i + 1] \in Alike(typed[i]) \ {typed[i]}
  /\ Slipped([typed EXCEPT ![i] = typed[i + 1], ![i + 1] = typed[i]])
Skip(i) == ~IsGap(typed[i]) /\ Slipped(RemoveAt(typed, i))
Repeat(i) == ~IsGap(typed[i]) /\ Slipped(InsertAt(typed, i, typed[i]))
Stray(i) == Slipped(InsertAt(typed, i, Other))

Next ==
  \E i \in DOMAIN typed :
    \/ \E g \in {Space, Dash} : Gap(i, g)
    \/ LowerCase(i)
    \/ Mistype(i) \/ Transpose(i) \/ Skip(i) \/ Repeat(i) \/ Stray(i)

Spec == Init /\ [][Next]_vars

-----------------------------------------------------------------------------
(* However an account is spaced and cased, the sheet takes it, the server      *)
(* takes what the sheet sends, and what is saved is the account that was meant *)
(* (addBankAccount keeps normalized, country and last4).                       *)
AsIntended ==
  slips = 0 =>
    /\ Saved
    /\ validateIban(SentToServer).normalized = intended
    /\ validateIban(SentToServer).country = country(intended)
    /\ validateIban(SentToServer).last4 = LastFour(intended)

(* One wrong character of the same kind, two neighbours swapped, one left out,  *)
(* doubled or foreign: neither the sheet nor the server saves it.  A letter     *)
(* for a digit, or a letter swapped with a digit, changes the number of digits  *)
(* in the checksum and can go through.                                          *)
SlipIsCaught ==
  slips = 1 => ~check.ok /\ ~validateIban(typed).ok
=============================================================================
