------------------------------ MODULE MqttTopic ------------------------------
(***************************************************************************)
(* Topic filters of the MQTT client: which are accepted                    *)
(* (iotx_mc_check_topic over infra_strtok) and which handler a message is  *)
(* delivered to (iotx_mc_is_topic_matched, MQTTPacket_equals).             *)
(*                                                                         *)
(* A topic is a sequence of bytes.  The reference definitions at the end   *)
(* are those of MQTT 3.1.1, section 4.7, over sequences of levels.         *)
(***************************************************************************)
EXTENDS Integers, Sequences

CONSTANT TopicMax  \* CONFIG_MQTT_TOPIC_MAXLEN
ASSUME TopicAssumption == TopicMax \in Nat \ {0}

Slash == 47
Plus  == 43
Hash  == 35
Wildcards == {Plus, Hash}

\* The smallest element of a set of positions, or d if there is none.
First(S, d) == IF S = {} THEN d ELSE CHOOSE k \in S : \A j \in S : k <= j

(***************************************************************************)
(* One call of infra_strtok, which goes on at pos: the next token, if      *)
(* there is one.  What remains is dropped if it is a single character.     *)
(***************************************************************************)
infra_strtok(t, c) ==
  LET b == First({m \in c.pos .. Len(t) : t[m] # Slash}, Len(t) + 1)
      e == First({m \in b .. Len(t) : t[m] = Slash}, Len(t) + 1)
  IN  IF Len(t) - c.pos + 1 <= 1 \/ b > Len(t) THEN c
      ELSE [pos  |-> IF e < Len(t) THEN e + 1 ELSE Len(t) + 1,
            toks |-> Append(c.toks, SubSeq(t, b, e - 1))]

\* It is called until it returns NULL.
Tokens(t) ==
  LET call[k \in 0 .. Len(t)] ==
        IF k = 0 THEN [pos |-> 1, toks |-> <<>>] ELSE infra_strtok(t, call[k - 1])
  IN  call[Len(t)].toks

HasWildcard(s) == \E k \in DOMAIN s : s[k] \in Wildcards

\* iotx_mc_check_rule
CheckRule(iterm, type) ==
  /\ HasWildcard(iterm) => type = "FILTER" /\ Len(iterm) = 1
  /\ \A k \in DOMAIN iterm : iterm[k] \in 32 .. 126

\* iotx_mc_check_topic: mask is set by every token but the first.  The copy that
\* is looked at has no room for the last character of the longest topic.
CheckTopic(t, type) ==
  LET toks == Tokens(IF Len(t) = TopicMax THEN SubSeq(t, 1, TopicMax - 1) ELSE t)
  IN  /\ t # <<>> /\ t[1] = Slash
      /\ Len(t) <= TopicMax
      /\ toks # <<>>
      /\ \A k \in DOMAIN toks : CheckRule(toks[k], type)
      /\ \A k \in 2 .. Len(toks) - 1 : toks[k] # <<Hash>>

\* Mistake: '+' runs over separators.
LevelEndGreedy(n, j) == Len(n)
\* Where '+' stops: the last character before the next separator.
LevelEnd(n, j) == First({k \in j + 1 .. Len(n) : n[k] = Slash}, Len(n) + 1) - 1

\* A round of iotx_mc_is_topic_matched, with curf at i and curn at j: where curn
\* goes on, 0 if the loop ends.
Round(f, n, i, j) ==
  IF j = 0 \/ j > Len(n) THEN 0
  ELSE IF n[j] = Slash /\ f[i] # Slash THEN 0
  ELSE IF f[i] = Plus THEN LevelEnd(n, j) + 1
  ELSE IF f[i] = Hash THEN Len(n) + 1
  ELSE IF f[i] = n[j] THEN j + 1 ELSE 0

Matched(f, n) ==
  LET curn[i \in 0 .. Len(f)] == IF i = 0 THEN 1 ELSE Round(f, n, i, curn[i - 1])
  IN  curn[Len(f)] = Len(n) + 1

\* iotx_mc_deliver_message: a message on topic n goes to the handler of f.
Delivered(f, n) == f = n \/ Matched(f, n)

-----------------------------------------------------------------------------
(* The standard.                                                           *)

\* The levels of a text that goes on with the character c.
Longer(levels, c) ==
  IF c = Slash THEN Append(levels, <<>>)
  ELSE [levels EXCEPT ![Len(levels)] = Append(@, c)]

Levels(t) ==
  LET upto[k \in 0 .. Len(t)] == IF k = 0 THEN << <<>> >> ELSE Longer(upto[k - 1], t[k])
  IN  upto[Len(t)]

WellFormedFilter(f) ==
  LET F == Levels(f)
  IN  \A k \in DOMAIN F :
        /\ HasWildcard(F[k]) => Len(F[k]) = 1
        /\ F[k] = <<Hash>> => k = Len(F)

StandardMatch(f, n) ==
  LET F == Levels(f)
      N == Levels(n)
      hash  == F[Len(F)] = <<Hash>>
      fixed == IF hash THEN Len(F) - 1 ELSE Len(F)
  IN  /\ IF hash THEN Len(N) >= fixed ELSE Len(N) = fixed
      /\ \A k \in 1 .. fixed : F[k] = <<Plus>> \/ F[k] = N[k]

-----------------------------------------------------------------------------
(* What the client owes a filter f, a handler's filter or a topic name.    *)

(* A message is handled only if the filter matches its topic n.            *)
DeliverySound(f, n, handled) ==
  WellFormedFilter(f) /\ handled => StandardMatch(f, n)

(***************************************************************************)
(* It is handled if the filter matches and the topic starts with a         *)
(* separator and has no empty level after it: the code asks for at least   *)
(* one character, and '#' does not stand for the parent level.             *)
(***************************************************************************)
DeliveryComplete(f, n, handled) ==
  LET N == Levels(n)
  IN  /\ WellFormedFilter(f) /\ StandardMatch(f, n)
      /\ N[1] = <<>> /\ Levels(f)[1] = <<>>
      /\ \A k \in 2 .. Len(N) : N[k] # <<>>
      /\ Len(N) >= Len(Levels(f))
      => handled

(***************************************************************************)
(* A filter, or a topic name, that the standard allows is not to be        *)
(* refused if it is printable, starts with a separator, has a level and is *)
(* shorter than the client's longest.                                      *)
(***************************************************************************)
MustBeAccepted(f, type) ==
  /\ WellFormedFilter(f) /\ (type = "NAME" => ~HasWildcard(f))
  /\ \A k \in DOMAIN f : f[k] \in 32 .. 126
  /\ f # <<>> /\ f[1] = Slash /\ (\E k \in DOMAIN f : f[k] # Slash)
  /\ Len(f) < TopicMax

=============================================================================
