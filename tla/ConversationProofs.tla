-------------------------- MODULE ConversationProofs --------------------------
(***************************************************************************)
(* The chat screen for any number of questions, tokens, loads of a model   *)
(* and sessions: where replies end up, and what is saved.                  *)
(***************************************************************************)
EXTENDS Conversation, TLAPS

Token   == Nat \X Nat
Message == [isUser : BOOLEAN, content : Seq(Token)]
Chats   == {ms \in Seq(Message) : \A i \in DOMAIN ms : ms[i].isUser => ms[i].content # <<>>}
Steps   == {"queued", "replying", "unheard", "ended", "failed", "failing", "closing", "done"}
Gen     == [kind : {"local", "remote"}, active : BOOLEAN, step : Steps,
            question : Nat, made : Nat, got : Nat]
Load    == [step : {"begin", "metadata", "engine", "loaded", "failed", "done"},
            next : {"submit", "regenerate", "nothing"}, arg : Nat]

ChatTypes ==
    /\ messages \in Chats /\ last \in Seq(Token)
    /\ \A s \in DOMAIN saved : saved[s] \in Chats
MenuTypes ==
    menu.open = "app" =>
        /\ DOMAIN menu.items \subseteq DOMAIN saved
        /\ \A s \in DOMAIN menu.items : menu.items[s] \in Chats
GenTypes ==
    /\ gens \in Seq(Gen)
    /\ \A g \in DOMAIN gens : gens[g].kind = "remote" => gens[g].got = 0
LoadTypes == loads \in Seq(Load)
OtherTypes == asked \in Nat /\ edit \in Nat /\ provider \in {"local", "remote"}

Types == ChatTypes /\ MenuTypes /\ GenTypes /\ LoadTypes /\ OtherTypes

Settled == messages # <<>> => session \in DOMAIN saved /\ saved[session] = messages

\* The reply g is generated is the last message, below its question, and the
\* buffer has the tokens that came.
Partial(g) ==
    /\ Len(messages) > 1
    /\ messages[Len(messages) - 1].isUser
    /\ messages[Len(messages) - 1].content[1][1] = gens[g].question
    /\ last = [n \in 1..gens[g].got |-> <<gens[g].question, n>>]

\* The reply of a coroutine was finished on the screen.
Ending == {"failing", "closing"}

\* What is known of a coroutine that is active: it is the last one, its reply
\* is in place or not shown any more, and before it ends all is saved.
Active(g) ==
    /\ g = Len(gens)
    /\ NoReplyShown \/ Partial(g)
    /\ gens[g].step \in Ending => gens[g].got = gens[g].made /\ Settled

Good ==
    /\ RepliesInPlace(messages)
    /\ \A s \in DOMAIN saved : RepliesInPlace(saved[s])
    /\ \A g \in DOMAIN gens : gens[g].active => Active(g)
    /\ (\A g \in DOMAIN gens : ~gens[g].active) => Settled

IInv == Types /\ (accidents = {} => Good)

------------------------------------------------------------------------------
(* Messages.                                                               *)

\* What may follow the messages of ms.
Fits(ms, m) ==
    \/ m.isUser \/ m = Placeholder \/ m = Edited
    \/ /\ ms # <<>> /\ ms[Len(ms)].isUser
       /\ m.content = [n \in 1..Len(m.content) |-> <<ms[Len(ms)].content[1][1], n>>]

LEMMA AppendChat ==
    ASSUME NEW ms \in Chats, NEW m \in Message, m.isUser => m.content # <<>>
    PROVE  /\ Append(ms, m) \in Chats
           /\ Len(Append(ms, m)) = Len(ms) + 1
           /\ Append(ms, m)[Len(ms) + 1] = m
           /\ \A i \in DOMAIN ms : Append(ms, m)[i] = ms[i]
<1> DEFINE new == Append(ms, m)
<1>1. ms \in Seq(Message)
  BY DEF Chats
<1>2. /\ new \in Seq(Message) /\ Len(new) = Len(ms) + 1 /\ new[Len(ms) + 1] = m
      /\ \A i \in DOMAIN ms : new[i] = ms[i]
  BY <1>1
<1>3. \A i \in DOMAIN new : i \in DOMAIN ms \/ i = Len(ms) + 1
  BY <1>1, <1>2
<1> HIDE DEF new
<1>4. \A i \in DOMAIN new : new[i].isUser => new[i].content # <<>>
  BY <1>2, <1>3 DEF Chats
<1>5. new \in Chats
  BY <1>2, <1>4 DEF Chats
<1> QED  BY <1>2, <1>5 DEF new

LEMMA AppendInPlace ==
    ASSUME NEW ms \in Chats, NEW m \in Message, m.isUser => m.content # <<>>,
           RepliesInPlace(ms), Fits(ms, m)
    PROVE  RepliesInPlace(Append(ms, m))
<1> DEFINE new == Append(ms, m)
<1>1. /\ Len(new) = Len(ms) + 1 /\ new[Len(ms) + 1] = m
      /\ \A i \in DOMAIN ms : new[i] = ms[i]
      /\ Len(ms) \in Nat /\ DOMAIN new = 1..Len(ms) + 1 /\ DOMAIN ms = 1..Len(ms)
  BY AppendChat DEF Chats
<1> HIDE DEF new
<1>2. ASSUME NEW i \in DOMAIN new, ~new[i].isUser, new[i] # Placeholder, new[i] # Edited
      PROVE  /\ i > 1 /\ new[i - 1].isUser
             /\ new[i].content = [n \in 1..Len(new[i].content) |-> <<new[i - 1].content[1][1], n>>]
  <2>1. CASE i \in DOMAIN ms
    <3>1. /\ i > 1 /\ ms[i - 1].isUser
          /\ ms[i].content = [n \in 1..Len(ms[i].content) |-> <<ms[i - 1].content[1][1], n>>]
      BY <1>1, <1>2, <2>1 DEF RepliesInPlace
    <3>2. i - 1 \in DOMAIN ms
      BY <1>1, <2>1, <3>1
    <3> QED  BY <1>1, <2>1, <3>1, <3>2
  <2>2. CASE i = Len(ms) + 1
    <3>1. /\ ms # <<>> /\ ms[Len(ms)].isUser
          /\ m.content = [n \in 1..Len(m.content) |-> <<ms[Len(ms)].content[1][1], n>>]
      BY <1>1, <1>2, <2>2 DEF Fits
    <3>2. Len(ms) # 0 /\ Len(ms) \in DOMAIN ms
      BY <1>1, <3>1 DEF Chats
    <3> QED  BY <1>1, <2>2, <3>1, <3>2
  <2> QED  BY <1>1, <2>1, <2>2
<1>3. RepliesInPlace(new)
  BY <1>2 DEF RepliesInPlace
<1> QED  BY <1>3 DEF new

LEMMA UptoChat ==
    ASSUME NEW ms \in Chats, NEW n \in 0..Len(ms)
    PROVE  /\ Upto(ms, n) \in Chats /\ Len(Upto(ms, n)) = n
           /\ \A i \in 1..n : Upto(ms, n)[i] = ms[i]
           /\ RepliesInPlace(ms) => RepliesInPlace(Upto(ms, n))
<1> DEFINE new == Upto(ms, n)
<1>1. ms \in Seq(Message) /\ Len(ms) \in Nat /\ DOMAIN ms = 1..Len(ms) /\ n \in Nat
  BY DEF Chats
<1>2. /\ new \in Seq(Message) /\ Len(new) = n /\ DOMAIN new = 1..n
      /\ \A i \in 1..n : new[i] = ms[i]
  BY <1>1 DEF Upto
<1> HIDE DEF new
<1>3. new \in Chats
  BY <1>1, <1>2 DEF Chats
<1>4. ASSUME RepliesInPlace(ms), NEW i \in DOMAIN new,
             ~new[i].isUser, new[i] # Placeholder, new[i] # Edited
      PROVE  /\ i > 1 /\ new[i - 1].isUser
             /\ new[i].content = [k \in 1..Len(new[i].content) |-> <<new[i - 1].content[1][1], k>>]
  <2>1. new[i] = ms[i] /\ i \in DOMAIN ms
    BY <1>1, <1>2
  <2>2. /\ i > 1 /\ ms[i - 1].isUser
        /\ ms[i].content = [k \in 1..Len(ms[i].content) |-> <<ms[i - 1].content[1][1], k>>]
    BY <1>4, <2>1 DEF RepliesInPlace
  <2>3. new[i - 1] = ms[i - 1]
    BY <1>1, <1>2, <2>2
  <2> QED  BY <2>1, <2>2, <2>3
<1>5. RepliesInPlace(ms) => RepliesInPlace(new)
  BY <1>4 DEF RepliesInPlace
<1> QED  BY <1>2, <1>3, <1>5 DEF new

\* The messages that are no replies.
LEMMA Kinds ==
    /\ \A q \in Nat : /\ UserMessage(q) \in Message /\ UserMessage(q).isUser
                      /\ UserMessage(q).content # <<>> /\ UserMessage(q).content[1][1] = q
    /\ Edited \in Message /\ ~Edited.isUser
    /\ Placeholder \in Message /\ ~Placeholder.isUser
<1>1. ASSUME NEW q \in Nat PROVE <<<<q, 0>>>> \in Seq(Token) /\ <<<<q, 0>>>> # <<>>
  <2>1. <<q, 0>> \in Token
    BY DEF Token
  <2> QED  BY <2>1
<1>2. <<<<0, 0>>>> \in Seq(Token) /\ <<>> \in Seq(Token)
  BY <1>1
<1> QED  BY <1>1, <1>2 DEF UserMessage, Edited, Placeholder, Message

\* removeEmptyTrailingAssistant
LEMMA TrimmedChat ==
    ASSUME NEW ms \in Chats
    PROVE  /\ Trimmed(ms) \in Chats
           /\ RepliesInPlace(ms) => RepliesInPlace(Trimmed(ms))
           /\ Trimmed(ms) = ms \/
                /\ ms # <<>> /\ Len(Trimmed(ms)) = Len(ms) - 1
                /\ \A i \in 1..Len(ms) - 1 : Trimmed(ms)[i] = ms[i]
<1>1. CASE ms # <<>> /\ ms[Len(ms)] = Placeholder
  <2>1. Len(ms) - 1 \in 0..Len(ms)
    BY <1>1 DEF Chats
  <2>2. Trimmed(ms) = Upto(ms, Len(ms) - 1)
    BY <1>1 DEF Trimmed
  <2> QED  BY <1>1, <2>1, <2>2, UptoChat
<1>2. CASE ~(ms # <<>> /\ ms[Len(ms)] = Placeholder)
  BY <1>2 DEF Trimmed
<1> QED  BY <1>1, <1>2

\* saveMessages
LEMMA SavedChats ==
    ASSUME Types, NEW ms \in Chats
    PROVE  /\ DOMAIN saved \subseteq DOMAIN Saved(ms)
           /\ \A s \in DOMAIN Saved(ms) : Saved(ms)[s] \in Chats
           /\ ms # <<>> => session \in DOMAIN Saved(ms) /\ Saved(ms)[session] = ms
           /\ RepliesInPlace(ms) /\ (\A s \in DOMAIN saved : RepliesInPlace(saved[s]))
                => \A s \in DOMAIN Saved(ms) : RepliesInPlace(Saved(ms)[s])
<1>1. CASE ms = <<>>
  BY <1>1 DEF Saved, Types, ChatTypes
<1>2. CASE ms # <<>>
  <2>1. /\ DOMAIN Saved(ms) = DOMAIN saved \cup {session}
        /\ \A s \in DOMAIN Saved(ms) : Saved(ms)[s] = IF s = session THEN ms ELSE saved[s]
    BY <1>2 DEF Saved, With
  <2> QED  BY <2>1 DEF Types, ChatTypes
<1> QED  BY <1>1, <1>2

------------------------------------------------------------------------------
(* Steps that do similar things.                                           *)

NobodyActive == \A g \in DOMAIN gens : ~gens[g].active

LEMMA Inactive ==
    ASSUME GenTypes, \A g \in DOMAIN gens : gens[g].active => g = Len(gens)
    PROVE  ~Generating => NobodyActive
BY DEF GenTypes, Generating, NobodyActive

\* Nothing on its way, and all saved.
LEMMA Quietly ==
    ASSUME NobodyActive', Settled', RepliesInPlace(messages)',
           (\A s \in DOMAIN saved : RepliesInPlace(saved[s]))'
    PROVE  Good'
BY DEF Good, NobodyActive

LEMMA MenuKept ==
    ASSUME MenuTypes, menu' = menu, DOMAIN saved \subseteq DOMAIN saved'
    PROVE  MenuTypes'
BY DEF MenuTypes

\* Coroutines go on, and keep what they have shown.
Onward ==
    /\ gens' \in Seq(Gen) /\ Len(gens') = Len(gens)
    /\ \A g \in DOMAIN gens :
        /\ gens'[g].kind = gens[g].kind /\ gens'[g].question = gens[g].question
        /\ gens'[g].got = gens[g].got
        /\ gens'[g].active => gens[g].active

LEMMA OnwardFacts ==
    ASSUME GenTypes, Onward
    PROVE  GenTypes' /\ DOMAIN gens' = DOMAIN gens
BY DEF GenTypes, Onward

\* A step of the engine, of the server or of the user that leaves the messages
\* as they are.
LEMMA ChatKept ==
    ASSUME IInv, Onward, UNCHANGED <<session, messages, last, saved>>,
           accidents' = {} => accidents = {},
           \A g \in DOMAIN gens : gens'[g].active /\ gens'[g].step \in Ending =>
               gens[g].step \in Ending /\ gens'[g].made = gens[g].made,
           Good /\ NobodyActive' => Settled
    PROVE  ChatTypes' /\ GenTypes' /\ (accidents' = {} => Good')
<1>1. ChatTypes' /\ GenTypes' /\ DOMAIN gens' = DOMAIN gens
  BY OnwardFacts DEF IInv, Types, ChatTypes
<1>2. ASSUME accidents = {} PROVE Good'
  <2>1. Good
    BY <1>2 DEF IInv
  <2>2. ASSUME NEW g \in DOMAIN gens', gens'[g].active PROVE Active(g)'
    <3>1. g \in DOMAIN gens /\ Active(g)
      BY <1>1, <2>1, <2>2 DEF Good, Onward
    <3>2. (NoReplyShown \/ Partial(g))'
      BY <3>1 DEF Active, NoReplyShown, Partial, Onward
    <3>3. (gens[g].step \in Ending)' => gens'[g].got = gens'[g].made /\ Settled'
      BY <2>2, <3>1 DEF Active, Onward, Settled
    <3> QED  BY <3>1, <3>2, <3>3 DEF Active, Onward, Ending
  <2>3. NobodyActive' => Settled'
    BY <2>1 DEF Settled
  <2> QED  BY <1>1, <2>1, <2>2, <2>3 DEF Good, NobodyActive
<1> QED  BY <1>1, <1>2

\* finishGeneration, whoever calls it.
LEMMA Finished ==
    ASSUME IInv, Onward, Finish(messages), UNCHANGED <<session, last>>,
           accidents' = {} => accidents = {},
           \A g \in DOMAIN gens : gens'[g].active /\ gens'[g].step \in Ending =>
               \/ gens[g].step \in Ending /\ gens'[g].made = gens[g].made
               \/ gens'[g].made = gens[g].got
    PROVE  /\ ChatTypes' /\ GenTypes' /\ DOMAIN saved \subseteq DOMAIN saved'
           /\ accidents' = {} => Good'
<1>1. GenTypes' /\ DOMAIN gens' = DOMAIN gens
  BY OnwardFacts DEF IInv, Types
<1>2. messages \in Chats /\ messages' = Trimmed(messages) /\ messages' \in Chats
  BY TrimmedChat DEF IInv, Types, ChatTypes, Finish
<1>3. /\ DOMAIN saved \subseteq DOMAIN saved'
      /\ \A s \in DOMAIN saved' : saved'[s] \in Chats
      /\ Settled'
  BY <1>2, SavedChats DEF IInv, Finish, Settled
<1>4. ChatTypes'
  BY <1>2, <1>3 DEF IInv, Types, ChatTypes
<1>5. ASSUME accidents = {} PROVE Good'
  <2>1. Good
    BY <1>5 DEF IInv
  <2>2. RepliesInPlace(messages')
    BY <1>2, <2>1, TrimmedChat DEF Good
  <2>3. \A s \in DOMAIN saved' : RepliesInPlace(saved'[s])
    BY <1>2, <2>1, <2>2, SavedChats DEF Good, Finish, IInv
  <2>4. ASSUME NEW g \in DOMAIN gens', gens'[g].active PROVE Active(g)'
    <3>1. g \in DOMAIN gens /\ Active(g)
      BY <1>1, <2>1, <2>4 DEF Good, Onward
    <3>2. (NoReplyShown \/ Partial(g))'
      <4>1. CASE messages' = messages
        BY <3>1, <4>1 DEF Active, NoReplyShown, Partial, Onward
      <4>2. CASE messages' # messages
        <5>1. /\ messages # <<>> /\ Len(messages') = Len(messages) - 1
              /\ \A i \in 1..Len(messages) - 1 : messages'[i] = messages[i]
          BY <1>2, <4>2, TrimmedChat
        <5>2. messages[Len(messages)] = Placeholder
          BY <1>2, <4>2 DEF Trimmed
        <5>3. Partial(g)
          BY <3>1, <5>1, <5>2 DEF Active, NoReplyShown, Placeholder
        <5>4. messages'[Len(messages')].isUser
          BY <1>2, <5>1, <5>3 DEF Partial, Chats
        <5> QED  BY <5>4 DEF NoReplyShown
      <4> QED  BY <4>1, <4>2
    <3>3. (gens[g].step \in Ending)' => gens'[g].got = gens'[g].made
      BY <2>4, <3>1 DEF Active, Onward
    <3> QED  BY <1>3, <3>1, <3>2, <3>3 DEF Active, Onward, Ending
  <2> QED  BY <1>3, <2>2, <2>3, <2>4 DEF Good
<1> QED  BY <1>1, <1>3, <1>4, <1>5

\* A reply is asked for below the last message, while none is on its way.
LEMMA Generated ==
    ASSUME IInv, NEW ms \in Chats, NEW i \in DOMAIN ms, ms[i].isUser,
           NEW kind \in {"local", "remote"}, Generate(ms, i, kind),
           \A s \in DOMAIN saved' : saved'[s] \in Chats,
           accidents' = {} =>
               /\ NobodyActive /\ i = Len(ms) /\ RepliesInPlace(ms)
               /\ \A s \in DOMAIN saved' : RepliesInPlace(saved'[s])
    PROVE  ChatTypes' /\ GenTypes' /\ (accidents' = {} => Good')
<1> DEFINE q == ms[i].content[1][1]
           h == [kind |-> kind, active |-> TRUE, step |-> "queued",
                 question |-> q, made |-> 0, got |-> 0]
<1>1. q \in Nat
  <2>1. ms[i] \in Message /\ ms[i].content # <<>>
    BY DEF Chats
  <2>2. ms[i].content \in Seq(Token)
    BY <2>1 DEF Message
  <2>3. ms[i].content[1] \in Token
    BY <2>1, <2>2
  <2> QED  BY <2>3 DEF Token
<1>2. h \in Gen
  BY <1>1 DEF Gen, Steps
<1>3. /\ messages' \in Chats /\ Len(messages') = Len(ms) + 1
      /\ messages'[Len(ms) + 1] = Placeholder
      /\ \A k \in DOMAIN ms : messages'[k] = ms[k]
  BY AppendChat, Kinds DEF Generate
<1>4. last' = <<>> /\ last' \in Seq(Token)
  BY DEF Generate
<1>5. gens' = Append(gens, h)
  BY DEF Generate
<1> HIDE DEF h, q
<1>6. /\ gens' \in Seq(Gen) /\ Len(gens') = Len(gens) + 1 /\ gens'[Len(gens')] = h
      /\ \A g \in DOMAIN gens : gens'[g] = gens[g]
      /\ \A g \in DOMAIN gens' : g \in DOMAIN gens \/ g = Len(gens')
  BY <1>2, <1>5 DEF IInv, Types, GenTypes
<1>7. ChatTypes' /\ GenTypes'
  BY <1>3, <1>4, <1>6 DEF ChatTypes, GenTypes, IInv, Types, h
<1>8. ASSUME accidents' = {} PROVE Good'
  <2>1. RepliesInPlace(messages')
    BY <1>8, AppendInPlace, Kinds DEF Generate, Fits
  <2>2. (gens[Len(gens)].active /\ Active(Len(gens)))'
    <3>1. Partial(Len(gens))'
      <4>1. Len(ms) \in Nat \ {0} /\ Len(ms) \in DOMAIN ms
        BY DEF Chats
      <4>2. Len(messages') > 1 /\ messages'[Len(messages') - 1] = ms[i]
        BY <1>3, <1>8, <4>1
      <4>3. last' = [n \in 1..h.got |-> <<h.question, n>>]
        BY <1>4 DEF h
      <4> QED  BY <1>6, <4>2, <4>3 DEF Partial, h, q
    <3> QED  BY <1>6, <3>1 DEF Active, h, Ending
  <2>3. \A g \in DOMAIN gens' : gens'[g].active => g = Len(gens')
    BY <1>6, <1>8 DEF NobodyActive
  <2>4. Len(gens') \in DOMAIN gens'
    BY <1>6 DEF IInv, Types, GenTypes
  <2> QED  BY <1>8, <2>1, <2>2, <2>3, <2>4 DEF Good
<1> QED  BY <1>7, <1>8

------------------------------------------------------------------------------
(* The actions.                                                            *)

\* Tasks that leave the messages and the replies alone.
LEMMA OnwardStutter == GenTypes /\ gens' = gens => Onward
BY DEF GenTypes, Onward

LEMMA NoteAdds ==
    ASSUME NEW accident, NEW happened \in BOOLEAN, Note(accident, happened), accidents' = {}
    PROVE  accidents = {} /\ ~happened
BY DEF Note

LEMMA ElsewhereStep ==
    ASSUME IInv, UNCHANGED <<session, messages, last, saved, gens>>,
           accidents' = accidents, MenuTypes', LoadTypes', OtherTypes'
    PROVE  IInv'
<1>1. Onward
  BY OnwardStutter DEF IInv, Types
<1>2. Good /\ NobodyActive' => Settled
  BY DEF Good, NobodyActive
<1>3. ChatTypes' /\ GenTypes' /\ (accidents' = {} => Good')
  BY <1>1, <1>2, ChatKept
<1> QED  BY <1>3 DEF IInv, Types

LEMMA LoadSet ==
    ASSUME LoadTypes, NEW l \in DOMAIN loads, NEW v \in Load
    PROVE  [loads EXCEPT ![l] = v] \in Seq(Load)
BY DEF LoadTypes

LEMMA LoadStepSet ==
    ASSUME LoadTypes, NEW l \in DOMAIN loads,
           NEW step \in {"begin", "metadata", "engine", "loaded", "failed", "done"}
    PROVE  [loads EXCEPT ![l].step = step] \in Seq(Load)
<1>1. loads[l] \in Load
  BY DEF LoadTypes
<1>2. [loads[l] EXCEPT !.step = step] \in Load
  BY <1>1 DEF Load
<1> QED  BY <1>2 DEF LoadTypes

LEMMA OverLoad == Over \in Load
BY DEF Over, Load

\* A load that comes to its end.
LEMMA LoadOver ==
    ASSUME IInv, NEW l \in DOMAIN loads, loads' = [loads EXCEPT ![l] = Over]
    PROVE  LoadTypes'
BY LoadSet, OverLoad DEF IInv, Types, LoadTypes

LEMMA MenusStep ==
    ASSUME IInv,
           OpenMenu \/ Dismiss \/ UseRemote \/ MenuRefused \/ Render
               \/ (\E i \in DOMAIN messages : OpenEdit(i))
    PROVE  IInv'
<1>1. CASE OpenMenu
  <2>1. menu'.open = "other"
    BY <1>1 DEF OpenMenu
  <2>2. MenuTypes' /\ LoadTypes' /\ OtherTypes'
    BY <1>1, <2>1 DEF OpenMenu, flags, engine, MenuTypes, LoadTypes, OtherTypes, IInv, Types
  <2> QED  BY <1>1, <2>2, ElsewhereStep DEF OpenMenu, chat
<1>2. CASE Dismiss
  <2>1. menu'.open = "no" /\ edit' = 0
    BY <1>2 DEF Dismiss, CloseMenu
  <2>2. MenuTypes' /\ LoadTypes' /\ OtherTypes'
    BY <1>2, <2>1 DEF Dismiss, flags, engine, MenuTypes, LoadTypes, OtherTypes, IInv, Types
  <2> QED  BY <1>2, <2>2, ElsewhereStep DEF Dismiss, chat
<1>3. CASE UseRemote
  <2>1. MenuTypes' /\ LoadTypes' /\ OtherTypes'
    BY <1>3 DEF UseRemote, chat, dialogs, MenuTypes, LoadTypes, OtherTypes, IInv, Types
  <2> QED  BY <1>3, <2>1, ElsewhereStep DEF UseRemote, chat
<1>4. CASE MenuRefused
  <2>1. menu'.open = "no"
    BY <1>4 DEF MenuRefused, CloseMenu
  <2>2. MenuTypes' /\ LoadTypes' /\ OtherTypes'
    BY <1>4, <2>1 DEF MenuRefused, MenuTypes, LoadTypes, OtherTypes, IInv, Types
  <2> QED  BY <1>4, <2>2, ElsewhereStep DEF MenuRefused, chat
<1>5. CASE Render
  <2>1. MenuTypes' /\ LoadTypes' /\ OtherTypes'
    BY <1>5 DEF Render, chat, dialogs, MenuTypes, LoadTypes, OtherTypes, IInv, Types
  <2> QED  BY <1>5, <2>1, ElsewhereStep DEF Render, chat
<1>6. ASSUME NEW i \in DOMAIN messages, OpenEdit(i) PROVE IInv'
  <2>1. edit' \in Nat
    BY <1>6 DEF OpenEdit, IInv, Types, ChatTypes, Chats
  <2>2. MenuTypes' /\ LoadTypes' /\ OtherTypes'
    BY <1>6, <2>1 DEF OpenEdit, chat, flags, MenuTypes, LoadTypes, OtherTypes, IInv, Types
  <2> QED  BY <1>6, <2>2, ElsewhereStep DEF OpenEdit, chat
<1> QED  BY <1>1, <1>2, <1>3, <1>4, <1>5, <1>6

\* Loads, but for cleanUp and for what waited for the model.
LEMMA LoadingStep ==
    ASSUME IInv, NEW l,
           NoModel(l) \/ LoadRefused(l) \/ MetadataFails(l) \/ EngineLoads(l)
               \/ (\E success \in BOOLEAN : EngineLoaded(l, success)) \/ LoadFails(l)
    PROVE  IInv'
<1>1. l \in DOMAIN loads
  BY DEF NoModel, LoadRefused, MetadataFails, EngineLoads, EngineLoaded, LoadFails, LoadAt
<1>2. LoadTypes /\ OtherTypes /\ MenuTypes
  BY DEF IInv, Types
<1>3. LoadTypes'
  <2>1. CASE NoModel(l) \/ LoadRefused(l) \/ MetadataFails(l) \/ LoadFails(l)
    BY <1>1, <2>1, LoadOver DEF NoModel, LoadRefused, MetadataFails, LoadFails, ShowError
  <2>2. CASE EngineLoads(l)
    BY <1>1, <1>2, <2>2, LoadStepSet DEF EngineLoads, LoadTypes
  <2>3. ASSUME NEW success \in BOOLEAN, EngineLoaded(l, success) PROVE LoadTypes'
    BY <1>1, <1>2, <2>3, LoadStepSet DEF EngineLoaded, LoadTypes
  <2> QED  BY <2>1, <2>2, <2>3
<1>4. /\ UNCHANGED <<session, messages, last, saved, gens, menu, edit, asked, provider>>
      /\ accidents' = accidents
  BY DEF NoModel, LoadRefused, MetadataFails, EngineLoads, EngineLoaded, LoadFails, ShowError,
         chat, flags, dialogs, engine
<1>5. MenuTypes' /\ OtherTypes'
  BY <1>2, <1>4 DEF MenuTypes, OtherTypes
<1> QED  BY <1>3, <1>4, <1>5, ElsewhereStep

\* The end of the reply that is told to stop.
LEMMA CleanUpOnward ==
    ASSUME GenTypes, CleanUp \/ gens' = gens
    PROVE  /\ Onward
           /\ \A g \in DOMAIN gens : gens'[g].active = gens[g].active
           /\ \A g \in DOMAIN gens : gens'[g].step \in Ending =>
                  gens'[g] = gens[g]
<1>1. CASE gens' = gens
  BY <1>1, OnwardStutter
<1>2. CASE CleanUp
  <2>1. gens' = [g \in DOMAIN gens |->
                    IF g = replier THEN [gens[g] EXCEPT !.step = "ended"] ELSE gens[g]]
    BY <1>2 DEF CleanUp
  <2>2. ASSUME NEW g \in DOMAIN gens
        PROVE  /\ gens'[g] \in Gen
               /\ gens'[g].kind = gens[g].kind /\ gens'[g].question = gens[g].question
               /\ gens'[g].got = gens[g].got /\ gens'[g].active = gens[g].active
               /\ gens'[g].step \in Ending => gens'[g] = gens[g]
    <3>1. gens[g] \in Gen
      BY DEF GenTypes
    <3>2. CASE g = replier
      <4>1. gens'[g] = [gens[g] EXCEPT !.step = "ended"]
        BY <2>1, <3>2
      <4> QED  BY <3>1, <4>1 DEF Gen, Steps, Ending
    <3>3. CASE g # replier
      BY <2>1, <3>1, <3>3
    <3> QED  BY <3>2, <3>3
  <2>3. gens' \in Seq(Gen) /\ Len(gens') = Len(gens)
    <3>1. DOMAIN gens' = 1..Len(gens) /\ Len(gens) \in Nat
      BY <2>1 DEF GenTypes
    <3>2. gens' = [g \in 1..Len(gens) |-> gens'[g]]
      BY <2>1, <3>1
    <3>3. gens' \in [1..Len(gens) -> Gen]
      BY <2>2, <3>1, <3>2 DEF GenTypes
    <3> QED  BY <3>1, <3>3
  <2> QED  BY <2>2, <2>3 DEF Onward
<1> QED  BY <1>1, <1>2

\* Loads and menus that may unload the model.
LEMMA UnloadingStep ==
    ASSUME IInv, (\E l : LoadModel(l)) \/ PickModel \/ UnloadModel
    PROVE  IInv'
<1>1. GenTypes /\ LoadTypes /\ OtherTypes /\ MenuTypes
  BY DEF IInv, Types
<1>2. /\ UNCHANGED <<session, messages, last, saved, edit, asked, provider>>
      /\ accidents' = accidents /\ (CleanUp \/ gens' = gens)
      /\ menu' = menu \/ menu'.open = "no"
  BY DEF LoadModel, PickModel, UnloadModel, BeginLoad, CloseMenu, chat, dialogs, engine
<1>3. LoadTypes'
  <2>1. ASSUME NEW l, LoadModel(l) PROVE LoadTypes'
    BY <1>1, <2>1, LoadStepSet DEF LoadModel, LoadAt, LoadTypes
  <2>2. CASE PickModel
    <3>1. [step |-> "metadata", next |-> "nothing", arg |-> 0] \in Load
      BY DEF Load
    <3> QED  BY <1>1, <2>2, <3>1 DEF PickModel, LoadTypes
  <2>3. CASE UnloadModel
    BY <1>1, <2>3 DEF UnloadModel, LoadTypes
  <2> QED  BY <2>1, <2>2, <2>3
<1>4. MenuTypes' /\ OtherTypes'
  BY <1>1, <1>2 DEF MenuTypes, OtherTypes
<1>5. /\ Onward
      /\ \A g \in DOMAIN gens : gens'[g].active = gens[g].active
      /\ \A g \in DOMAIN gens : gens'[g].step \in Ending => gens'[g] = gens[g]
  BY <1>1, <1>2, CleanUpOnward
<1>6. Good /\ NobodyActive' => Settled
  BY <1>1, <1>5, OnwardFacts DEF Good, NobodyActive
<1>7. ChatTypes' /\ GenTypes' /\ (accidents' = {} => Good')
  <2>1. \A g \in DOMAIN gens : gens'[g].active /\ gens'[g].step \in Ending =>
            gens[g].step \in Ending /\ gens'[g].made = gens[g].made
    BY <1>5
  <2> QED  BY <1>2, <1>5, <1>6, <2>1, ChatKept
<1> QED  BY <1>3, <1>4, <1>7 DEF IInv, Types

\* One coroutine moves.
LEMMA OneMoves ==
    ASSUME GenTypes, NEW g \in DOMAIN gens, NEW h \in Gen, gens' = [gens EXCEPT ![g] = h],
           h.kind = gens[g].kind, h.question = gens[g].question, h.got = gens[g].got,
           h.active => gens[g].active
    PROVE  /\ Onward /\ gens'[g] = h
           /\ \A k \in DOMAIN gens \ {g} : gens'[k] = gens[k]
BY DEF GenTypes, Onward

\* A coroutine that goes on, or ends once its reply was finished.
LEMMA ReplyStep ==
    ASSUME IInv, NEW g \in DOMAIN gens, NEW h \in Gen, gens' = [gens EXCEPT ![g] = h],
           h.kind = gens[g].kind, h.question = gens[g].question, h.got = gens[g].got,
           h.active => gens[g].active /\ h.step \notin Ending,
           gens[g].active /\ ~h.active => gens[g].step \in Ending,
           UNCHANGED <<session, messages, last, saved, menu, edit, provider, loads, asked>>,
           accidents' = {} => accidents = {}
    PROVE  IInv'
<1>1. GenTypes /\ MenuTypes /\ LoadTypes /\ OtherTypes
  BY DEF IInv, Types
<1>2. /\ Onward /\ gens'[g] = h
      /\ \A k \in DOMAIN gens \ {g} : gens'[k] = gens[k]
  BY <1>1, OneMoves
<1>3. \A k \in DOMAIN gens : gens'[k].active /\ gens'[k].step \in Ending =>
          gens[k].step \in Ending /\ gens'[k].made = gens[k].made
  BY <1>2
<1>4. ASSUME Good, NobodyActive' PROVE Settled
  <2>1. ~h.active /\ \A k \in DOMAIN gens \ {g} : ~gens[k].active
    BY <1>1, <1>2, <1>4, OnwardFacts DEF NobodyActive
  <2>2. CASE gens[g].active
    BY <1>4, <2>1, <2>2 DEF Good, Active
  <2>3. CASE ~gens[g].active
    BY <1>4, <2>1, <2>3 DEF Good
  <2> QED  BY <2>2, <2>3
<1>5. ChatTypes' /\ GenTypes' /\ (accidents' = {} => Good')
  BY <1>2, <1>3, <1>4, ChatKept
<1>6. MenuTypes' /\ LoadTypes' /\ OtherTypes'
  BY <1>1 DEF MenuTypes, LoadTypes, OtherTypes
<1> QED  BY <1>5, <1>6 DEF IInv, Types

\* The engine's part of a reply, and the server's.
LEMMA RepliesStep ==
    ASSUME IInv, NEW g,
           StartReply(g) \/ DropReply(g) \/ RefuseReply(g)
               \/ EngineToken(g) \/ EngineEnds(g) \/ PromptFails(g)
               \/ JobEnds(g) \/ (\E success \in BOOLEAN : RemoteReturns(g, success))
    PROVE  IInv'
<1>1. g \in DOMAIN gens /\ gens[g] \in Gen
  <2>1. g \in DOMAIN gens
    BY DEF StartReply, DropReply, RefuseReply, EngineToken, EngineEnds, PromptFails, Runs,
           JobEnds, RemoteReturns, At
  <2> QED  BY <2>1 DEF IInv, Types, GenTypes
<1>2. /\ UNCHANGED <<session, messages, last, saved, menu, edit, provider, loads, asked>>
      /\ accidents' = {} => accidents = {}
  BY DEF StartReply, DropReply, RefuseReply, EngineToken, EngineEnds, PromptFails, JobEnds,
         RemoteReturns, Note, chat, flags, dialogs
<1>3. ASSUME NEW s \in Steps \ Ending, Step(g, s) PROVE IInv'
  <2> DEFINE h == [gens[g] EXCEPT !.step = s]
  <2>1. /\ h \in Gen /\ h.kind = gens[g].kind /\ h.question = gens[g].question
        /\ h.got = gens[g].got /\ h.active = gens[g].active /\ h.step = s
    BY <1>1 DEF Gen
  <2>2. gens' = [gens EXCEPT ![g] = h]
    BY <1>3 DEF Step
  <2> HIDE DEF h
  <2> QED  BY <1>1, <1>2, <1>3, <2>1, <2>2, ReplyStep
<1>4. CASE StartReply(g) \/ DropReply(g) \/ RefuseReply(g) \/ EngineEnds(g) \/ PromptFails(g)
               \/ (\E success \in BOOLEAN : RemoteReturns(g, success))
  <2>1. \E s \in {"replying", "unheard", "done", "failed", "ended"} : Step(g, s)
    BY <1>4 DEF StartReply, DropReply, RefuseReply, EngineEnds, PromptFails, RemoteReturns
  <2> QED  BY <1>3, <2>1 DEF Steps, Ending
<1>5. CASE EngineToken(g)
  <2> DEFINE h == [gens[g] EXCEPT !.made = @ + 1]
  <2>1. /\ h \in Gen /\ h.kind = gens[g].kind /\ h.question = gens[g].question
        /\ h.got = gens[g].got /\ h.active = gens[g].active /\ h.step = "replying"
    <3>1. gens[g].made + 1 \in Nat /\ gens[g].step = "replying"
      BY <1>1, <1>5 DEF Gen, EngineToken, At
    <3> QED  BY <1>1, <3>1 DEF Gen
  <2>2. gens' = [gens EXCEPT ![g] = h]
    BY <1>5 DEF EngineToken
  <2> HIDE DEF h
  <2> QED  BY <1>1, <1>2, <2>1, <2>2, ReplyStep DEF Ending
<1>6. CASE JobEnds(g)
  <2> DEFINE h == [gens[g] EXCEPT !.active = FALSE, !.step = "done"]
  <2>1. /\ h \in Gen /\ h.kind = gens[g].kind /\ h.question = gens[g].question
        /\ h.got = gens[g].got /\ ~h.active
    BY <1>1 DEF Gen, Steps
  <2>2. gens' = [gens EXCEPT ![g] = h] /\ gens[g].step \in Ending
    BY <1>6 DEF JobEnds, At, Ending
  <2> HIDE DEF h
  <2> QED  BY <1>1, <1>2, <2>1, <2>2, ReplyStep
<1> QED  BY <1>4, <1>5, <1>6

\* What remains of a step that finishes: menus, loads and the rest.
LEMMA FinishedStep ==
    ASSUME IInv, Onward, Finish(messages), UNCHANGED <<session, last>>,
           accidents' = accidents,
           \A g \in DOMAIN gens : gens'[g].active /\ gens'[g].step \in Ending =>
               \/ gens[g].step \in Ending /\ gens'[g].made = gens[g].made
               \/ gens'[g].made = gens[g].got,
           UNCHANGED <<menu, edit, provider, loads, asked>>
    PROVE  IInv'
<1>1. /\ ChatTypes' /\ GenTypes' /\ DOMAIN saved \subseteq DOMAIN saved'
      /\ accidents' = {} => Good'
  BY Finished
<1>2. MenuTypes' /\ LoadTypes' /\ OtherTypes'
  BY <1>1, MenuKept DEF IInv, Types, LoadTypes, OtherTypes
<1> QED  BY <1>1, <1>2 DEF IInv, Types

LEMMA StopStep == IInv /\ StopGeneration => IInv'
<1> SUFFICES ASSUME IInv, StopGeneration PROVE IInv'
  OBVIOUS
<1> DEFINE n == Len(gens)
           h == [gens[n] EXCEPT !.active = FALSE]
<1>1. n \in DOMAIN gens /\ gens[n] \in Gen /\ GenTypes
  BY DEF StopGeneration, Generating, IInv, Types, GenTypes
<1>2. /\ h \in Gen /\ h.kind = gens[n].kind /\ h.question = gens[n].question
      /\ h.got = gens[n].got /\ ~h.active
  BY <1>1 DEF Gen
<1>3. gens' = [gens EXCEPT ![n] = h]
  BY DEF StopGeneration
<1> HIDE DEF h, n
<1>4. /\ Onward /\ gens'[n] = h
      /\ \A k \in DOMAIN gens \ {n} : gens'[k] = gens[k]
  BY <1>1, <1>2, <1>3, OneMoves
<1>5. \A g \in DOMAIN gens : gens'[g].active /\ gens'[g].step \in Ending =>
          gens[g].step \in Ending /\ gens'[g].made = gens[g].made
  BY <1>2, <1>4
<1> QED  BY <1>4, <1>5, FinishedStep DEF StopGeneration, dialogs

LEMMA FinishLocalStep == ASSUME IInv, NEW g, FinishLocal(g) PROVE IInv'
<1>1. PICK step \in {"ended", "failed", "failing"} :
          /\ At(g, "local", step) /\ gens[g].active /\ gens[g].got = gens[g].made
          /\ Step(g, IF step = "failed" THEN "failing" ELSE "closing")
  BY DEF FinishLocal
<1> DEFINE s == IF step = "failed" THEN "failing" ELSE "closing"
           h == [gens[g] EXCEPT !.step = s]
<1>2. g \in DOMAIN gens /\ gens[g] \in Gen /\ GenTypes
  BY <1>1 DEF At, IInv, Types, GenTypes
<1>3. /\ h \in Gen /\ h.kind = gens[g].kind /\ h.question = gens[g].question
      /\ h.got = gens[g].got /\ h.active = gens[g].active /\ h.made = gens[g].made
  BY <1>2 DEF Gen, Steps
<1>4. gens' = [gens EXCEPT ![g] = h]
  BY <1>1 DEF Step
<1> HIDE DEF h, s
<1>5. /\ Onward /\ gens'[g] = h
      /\ \A k \in DOMAIN gens \ {g} : gens'[k] = gens[k]
  BY <1>2, <1>3, <1>4, OneMoves
<1>6. \A k \in DOMAIN gens : gens'[k].active /\ gens'[k].step \in Ending =>
          \/ gens[k].step \in Ending /\ gens'[k].made = gens[k].made
          \/ gens'[k].made = gens[k].got
  BY <1>1, <1>3, <1>5
<1> QED  BY <1>5, <1>6, FinishedStep DEF FinishLocal, dialogs

LEMMA FinishLateStep == ASSUME IInv, NEW g, FinishLate(g) PROVE IInv'
<1> DEFINE h == [gens[g] EXCEPT !.step = "done"]
<1>2. g \in DOMAIN gens /\ gens[g] \in Gen /\ GenTypes /\ ~gens[g].active
  BY DEF FinishLate, At, IInv, Types, GenTypes
<1>3. /\ h \in Gen /\ h.kind = gens[g].kind /\ h.question = gens[g].question
      /\ h.got = gens[g].got /\ ~h.active
  BY <1>2 DEF Gen, Steps
<1>4. gens' = [gens EXCEPT ![g] = h]
  BY DEF FinishLate, Step
<1> HIDE DEF h
<1>5. /\ Onward /\ gens'[g] = h
      /\ \A k \in DOMAIN gens \ {g} : gens'[k] = gens[k]
  BY <1>2, <1>3, <1>4, OneMoves
<1>6. \A k \in DOMAIN gens : gens'[k].active /\ gens'[k].step \in Ending =>
          gens[k].step \in Ending /\ gens'[k].made = gens[k].made
  BY <1>3, <1>5
<1> QED  BY <1>5, <1>6, FinishedStep DEF FinishLate, dialogs

\* A question is appended: what may be asked is a question.
LEMMA AskedBelow ==
    ASSUME NEW ms \in Chats, NEW q \in Nat
    PROVE  LET new == Append(ms, UserMessage(q)) IN
           /\ new \in Chats /\ Len(ms) + 1 \in DOMAIN new /\ Len(new) = Len(ms) + 1
           /\ new[Len(ms) + 1].isUser /\ new # <<>>
           /\ RepliesInPlace(ms) => RepliesInPlace(new)
<1> DEFINE new == Append(ms, UserMessage(q))
<1>1. /\ UserMessage(q) \in Message /\ UserMessage(q).isUser
      /\ UserMessage(q).content # <<>>
  BY Kinds
<1>2. /\ new \in Chats /\ Len(new) = Len(ms) + 1
      /\ new[Len(ms) + 1] = UserMessage(q)
  BY <1>1, AppendChat
<1>3. RepliesInPlace(ms) => RepliesInPlace(new)
  BY <1>1, AppendInPlace DEF Fits
<1>4. Len(ms) \in Nat
  BY DEF Chats
<1>5. DOMAIN new = 1..Len(new)
  BY <1>2 DEF Chats
<1> HIDE DEF new
<1>6. Len(ms) + 1 \in DOMAIN new /\ new # <<>>
  BY <1>2, <1>4, <1>5
<1>7. /\ new \in Chats /\ Len(ms) + 1 \in DOMAIN new /\ Len(new) = Len(ms) + 1
      /\ new[Len(ms) + 1].isUser /\ new # <<>>
      /\ RepliesInPlace(ms) => RepliesInPlace(new)
  BY <1>1, <1>2, <1>3, <1>6
<1> QED  BY <1>7 DEF new

LEMMA LoadFirstTypes ==
    ASSUME LoadTypes, NEW next \in {"submit", "regenerate"}, NEW n \in Nat, LoadFirst(next, n)
    PROVE  LoadTypes'
<1>1. [step |-> "begin", next |-> next, arg |-> n] \in Load
  BY DEF Load
<1> QED  BY <1>1 DEF LoadFirst, LoadTypes

LEMMA SendStep == IInv /\ Send => IInv'
<1> SUFFICES ASSUME IInv, Send PROVE IInv'
  OBVIOUS
<1>1. /\ LoadTypes /\ OtherTypes /\ MenuTypes /\ ChatTypes /\ GenTypes
      /\ asked + 1 \in Nat /\ accidents' = accidents /\ saved' = saved /\ session' = session
      /\ menu' = menu /\ edit' = edit /\ provider' = provider /\ asked' = asked + 1
  BY DEF IInv, Types, OtherTypes, Send, dialogs
<1>2. MenuTypes' /\ OtherTypes'
  BY <1>1 DEF MenuTypes, OtherTypes
<1>3. CASE NeedsModel
  <2>1. LoadFirst("submit", asked + 1) /\ UNCHANGED <<messages, last, gens>>
    BY <1>3 DEF Send
  <2>2. LoadTypes'
    BY <1>1, <2>1, LoadFirstTypes
  <2>3. Onward
    BY <1>1, <2>1, OnwardStutter
  <2>4. Good /\ NobodyActive' => Settled
    BY <2>1 DEF Good, NobodyActive
  <2>5. ChatTypes' /\ GenTypes' /\ (accidents' = {} => Good')
    BY <1>1, <2>1, <2>3, <2>4, ChatKept
  <2> QED  BY <1>2, <2>2, <2>5 DEF IInv, Types
<1>4. CASE ~NeedsModel
  <2> DEFINE ms == Append(messages, UserMessage(asked + 1))
             i == Len(messages) + 1
  <2>1. Generate(ms, i, provider) /\ provider \in {"local", "remote"}
        /\ loads' = loads /\ ~Generating
    BY <1>1, <1>4 DEF Send, OtherTypes
  <2>2. /\ ms \in Chats /\ i \in DOMAIN ms /\ ms[i].isUser /\ i = Len(ms)
        /\ RepliesInPlace(messages) => RepliesInPlace(ms)
    BY <1>1, AskedBelow DEF ChatTypes
  <2>3. accidents' = {} => /\ NobodyActive /\ RepliesInPlace(messages)
                           /\ \A s \in DOMAIN saved' : RepliesInPlace(saved'[s])
    BY <1>1, <2>1, Inactive DEF IInv, Good, Active
  <2>4. \A s \in DOMAIN saved' : saved'[s] \in Chats
    BY <1>1 DEF ChatTypes
  <2> HIDE DEF ms, i
  <2>5. ChatTypes' /\ GenTypes' /\ (accidents' = {} => Good')
    BY <2>1, <2>2, <2>3, <2>4, Generated
  <2>6. LoadTypes'
    BY <1>1, <2>1 DEF LoadTypes
  <2> QED  BY <1>2, <2>5, <2>6 DEF IInv, Types
<1> QED  BY <1>3, <1>4

\* The messages are saved as they are shown.
LEMMA SavingStep ==
    ASSUME IInv, saved' = Saved(messages), UNCHANGED <<session, messages, last>>, Onward,
           accidents' = {} => accidents = {},
           \A g \in DOMAIN gens : gens'[g].active /\ gens'[g].step \in Ending =>
               gens[g].step \in Ending /\ gens'[g].made = gens[g].made
    PROVE  /\ ChatTypes' /\ GenTypes' /\ DOMAIN saved \subseteq DOMAIN saved'
           /\ accidents' = {} => Good'
<1>1. GenTypes' /\ DOMAIN gens' = DOMAIN gens
  BY OnwardFacts DEF IInv, Types
<1>2. /\ DOMAIN saved \subseteq DOMAIN saved' /\ Settled'
      /\ \A s \in DOMAIN saved' : saved'[s] \in Chats
      /\ RepliesInPlace(messages) /\ (\A s \in DOMAIN saved : RepliesInPlace(saved[s]))
           => \A s \in DOMAIN saved' : RepliesInPlace(saved'[s])
  BY SavedChats DEF IInv, Types, ChatTypes, Settled
<1>3. ChatTypes'
  BY <1>2 DEF IInv, Types, ChatTypes
<1>4. ASSUME accidents = {} PROVE Good'
  <2>1. Good
    BY <1>4 DEF IInv
  <2>2. ASSUME NEW g \in DOMAIN gens', gens'[g].active PROVE Active(g)'
    <3>1. g \in DOMAIN gens /\ Active(g)
      BY <1>1, <2>1, <2>2 DEF Good, Onward
    <3>2. (NoReplyShown \/ Partial(g))'
      BY <3>1 DEF Active, NoReplyShown, Partial, Onward
    <3>3. (gens[g].step \in Ending)' => gens'[g].got = gens'[g].made
      BY <2>2, <3>1 DEF Active, Onward
    <3> QED  BY <1>2, <3>1, <3>2, <3>3 DEF Active, Onward, Ending
  <2> QED  BY <1>2, <2>1, <2>2 DEF Good
<1> QED  BY <1>1, <1>2, <1>3, <1>4

LEMMA OnStopStep == IInv /\ OnStop => IInv'
<1> SUFFICES ASSUME IInv, OnStop PROVE IInv'
  OBVIOUS
<1>1. GenTypes
  BY DEF IInv, Types
<1>2. /\ Onward
      /\ \A g \in DOMAIN gens : gens'[g].active /\ gens'[g].step \in Ending =>
             gens[g].step \in Ending /\ gens'[g].made = gens[g].made
  <2>1. CASE Generating
    <3> DEFINE n == Len(gens)
               h == [gens[n] EXCEPT !.active = FALSE]
    <3>1. n \in DOMAIN gens /\ gens[n] \in Gen
      BY <1>1, <2>1 DEF Generating, GenTypes
    <3>2. /\ h \in Gen /\ h.kind = gens[n].kind /\ h.question = gens[n].question
          /\ h.got = gens[n].got /\ ~h.active
      BY <3>1 DEF Gen
    <3>3. gens' = [gens EXCEPT ![n] = h]
      BY <2>1 DEF OnStop
    <3> HIDE DEF h, n
    <3>4. /\ Onward /\ gens'[n] = h
          /\ \A k \in DOMAIN gens \ {n} : gens'[k] = gens[k]
      BY <1>1, <3>1, <3>2, <3>3, OneMoves
    <3> QED  BY <3>2, <3>4
  <2>2. CASE ~Generating
    <3>1. gens' = gens
      BY <2>2 DEF OnStop
    <3> QED  BY <1>1, <3>1, OnwardStutter
  <2> QED  BY <2>1, <2>2
<1>3. /\ saved' = Saved(messages)
      /\ accidents' = {} => accidents = {}
      /\ UNCHANGED <<session, messages, last, menu, edit, provider, loads, asked>>
  BY DEF OnStop, Note, flags, dialogs
<1>4. /\ ChatTypes' /\ GenTypes' /\ DOMAIN saved \subseteq DOMAIN saved'
      /\ accidents' = {} => Good'
  BY <1>2, <1>3, SavingStep
<1>5. MenuTypes' /\ LoadTypes' /\ OtherTypes'
  BY <1>3, <1>4, MenuKept DEF IInv, Types, LoadTypes, OtherTypes
<1> QED  BY <1>4, <1>5 DEF IInv, Types

LEMMA OpenAppMenuStep == IInv /\ OpenAppMenu => IInv'
<1> SUFFICES ASSUME IInv, OpenAppMenu PROVE IInv'
  OBVIOUS
<1>1. /\ saved' = Saved(messages) /\ accidents' = accidents
      /\ UNCHANGED <<session, messages, last, gens, edit, provider, loads, asked>>
      /\ menu' = [open |-> "app", items |-> saved']
  BY DEF OpenAppMenu, flags, engine
<1>2. Onward
  BY <1>1, OnwardStutter DEF IInv, Types
<1>3. /\ ChatTypes' /\ GenTypes' /\ DOMAIN saved \subseteq DOMAIN saved'
      /\ accidents' = {} => Good'
  BY <1>1, <1>2, SavingStep
<1>4. MenuTypes' /\ LoadTypes' /\ OtherTypes'
  BY <1>1, <1>3 DEF IInv, Types, MenuTypes, ChatTypes, LoadTypes, OtherTypes
<1> QED  BY <1>3, <1>4 DEF IInv, Types

\* Another session is shown, or another version of it, while nothing is on its way.
LEMMA ShownAnew ==
    ASSUME IInv, gens' = gens, messages' \in Chats, last' = <<>>,
           \A s \in DOMAIN saved' : saved'[s] \in Chats,
           accidents' = {} =>
               /\ accidents = {} /\ NobodyActive /\ Settled'
               /\ Good => RepliesInPlace(messages')
               /\ Good => \A s \in DOMAIN saved' : RepliesInPlace(saved'[s])
    PROVE  ChatTypes' /\ GenTypes' /\ (accidents' = {} => Good')
<1>1. last' \in Seq(Token)
  OBVIOUS
<1>2. ChatTypes' /\ GenTypes'
  BY <1>1 DEF ChatTypes, GenTypes, IInv, Types
<1>3. accidents' = {} => Good'
  BY Quietly DEF IInv, NobodyActive
<1> QED  BY <1>2, <1>3

LEMMA NoMessages == <<>> \in Chats /\ RepliesInPlace(<<>>)
BY DEF Chats, RepliesInPlace

LEMMA NothingPending == ~Pending => NobodyActive
BY DEF Pending, NobodyActive

LEMMA NewChatStep == IInv /\ NewChat => IInv'
<1> SUFFICES ASSUME IInv, NewChat PROVE IInv'
  OBVIOUS
<1>1. /\ saved' = Saved(messages) /\ messages' = <<>> /\ last' = <<>>
      /\ UNCHANGED <<gens, edit, provider, loads, asked>>
      /\ menu'.open = "no"
      /\ accidents' = {} => accidents = {} /\ ~Pending
  BY DEF NewChat, CloseMenu, StartEmptySession, flags, engine, Note
<1>2. /\ \A s \in DOMAIN saved' : saved'[s] \in Chats
      /\ Good => \A s \in DOMAIN saved' : RepliesInPlace(saved'[s])
  BY <1>1, SavedChats DEF IInv, Types, ChatTypes, Good
<1>3. ChatTypes' /\ GenTypes' /\ (accidents' = {} => Good')
  BY <1>1, <1>2, ShownAnew, NoMessages, NothingPending DEF Settled
<1>4. MenuTypes' /\ LoadTypes' /\ OtherTypes'
  BY <1>1 DEF IInv, Types, MenuTypes, LoadTypes, OtherTypes
<1> QED  BY <1>3, <1>4 DEF IInv, Types

LEMMA LoadSessionStep == ASSUME IInv, NEW s, LoadSession(s) PROVE IInv'
<1>1. /\ s \in DOMAIN menu.items /\ menu.open = "app"
      /\ saved' = Saved(messages) /\ session' = s
      /\ messages' = menu.items[s] /\ last' = <<>>
      /\ UNCHANGED <<gens, edit, provider, loads, asked>>
      /\ menu'.open = "no"
      /\ accidents' = {} =>
            accidents = {} /\ ~Pending /\ menu.items[s] = Saved(messages)[s]
  BY DEF LoadSession, CloseMenu, flags, engine
<1>2. /\ DOMAIN saved \subseteq DOMAIN saved'
      /\ \A t \in DOMAIN saved' : saved'[t] \in Chats
      /\ Good => \A t \in DOMAIN saved' : RepliesInPlace(saved'[t])
  BY <1>1, SavedChats DEF IInv, Types, ChatTypes, Good
<1>3. messages' \in Chats /\ s \in DOMAIN saved'
  BY <1>1, <1>2 DEF IInv, Types, MenuTypes
<1>4. accidents' = {} => messages' = saved'[s] /\ Settled'
  BY <1>1, <1>3 DEF Settled
<1>5. Good /\ accidents' = {} => RepliesInPlace(messages')
  BY <1>2, <1>3, <1>4
<1>6. ChatTypes' /\ GenTypes' /\ (accidents' = {} => Good')
  BY <1>1, <1>2, <1>3, <1>4, <1>5, ShownAnew, NothingPending
<1>7. MenuTypes' /\ LoadTypes' /\ OtherTypes'
  BY <1>1 DEF IInv, Types, MenuTypes, LoadTypes, OtherTypes
<1> QED  BY <1>6, <1>7 DEF IInv, Types

LEMMA DeleteSessionStep == ASSUME IInv, NEW s, DeleteSession(s) PROVE IInv'
<1>1. /\ saved' = Without(saved, s)
      /\ UNCHANGED <<gens, edit, provider, loads, asked>>
      /\ menu'.open = "no"
      /\ accidents' = {} => accidents = {} /\ ~(s = session /\ Pending)
  BY DEF DeleteSession, CloseMenu, flags, engine, Note
<1>2. /\ DOMAIN saved' = DOMAIN saved \ {s}
      /\ \A t \in DOMAIN saved' : saved'[t] = saved[t]
  BY <1>1 DEF Without
<1>3. /\ \A t \in DOMAIN saved' : saved'[t] \in Chats
      /\ Good => \A t \in DOMAIN saved' : RepliesInPlace(saved'[t])
  BY <1>2 DEF IInv, Types, ChatTypes, Good
<1>4. ChatTypes' /\ GenTypes' /\ (accidents' = {} => Good')
  <2>1. CASE s = session
    <3>1. messages' = <<>> /\ last' = <<>>
      BY <2>1 DEF DeleteSession, StartEmptySession
    <3> QED  BY <1>1, <1>3, <2>1, <3>1, ShownAnew, NoMessages, NothingPending DEF Settled
  <2>2. CASE s # session
    <3>1. UNCHANGED <<session, messages, last>>
      BY <2>2 DEF DeleteSession
    <3>2. ChatTypes' /\ GenTypes'
      BY <1>1, <1>3, <3>1 DEF IInv, Types, ChatTypes, GenTypes
    <3>3. Settled => Settled'
      BY <1>2, <2>2, <3>1 DEF Settled
    <3>4. ASSUME accidents' = {} PROVE Good'
      <4>1. Good
        BY <1>1, <3>4 DEF IInv
      <4>2. ASSUME NEW g \in DOMAIN gens', gens'[g].active PROVE Active(g)'
        <5>1. g \in DOMAIN gens /\ Active(g)
          BY <1>1, <4>1, <4>2 DEF Good
        <5> QED  BY <1>1, <3>1, <3>3, <5>1 DEF Active, NoReplyShown, Partial
      <4> QED  BY <1>1, <1>3, <3>1, <3>3, <4>1, <4>2 DEF Good
    <3> QED  BY <3>2, <3>4
  <2> QED  BY <2>1, <2>2
<1>5. MenuTypes' /\ LoadTypes' /\ OtherTypes'
  BY <1>1 DEF IInv, Types, MenuTypes, LoadTypes, OtherTypes
<1> QED  BY <1>4, <1>5 DEF IInv, Types

LEMMA ApplyEditStep == IInv /\ ApplyEdit => IInv'
<1> SUFFICES ASSUME IInv, ApplyEdit PROVE IInv'
  OBVIOUS
<1>1. /\ UNCHANGED <<session, provider, menu>> /\ edit' = 0 /\ edit # 0
      /\ ChatTypes /\ GenTypes /\ LoadTypes /\ OtherTypes /\ MenuTypes
  BY DEF ApplyEdit, IInv, Types
<1>2. CASE edit \notin DOMAIN messages
  <2>1. UNCHANGED <<messages, last, saved, gens, loads, asked, accidents>>
    BY <1>2 DEF ApplyEdit
  <2> QED  BY <1>1, <2>1, ElsewhereStep DEF MenuTypes, LoadTypes, OtherTypes
<1>3. CASE edit \in DOMAIN messages
  <2> DEFINE isUser == messages[edit].isUser
             m == IF isUser THEN UserMessage(asked + 1) ELSE Edited
             ms == Append(Upto(messages, edit - 1), m)
  <2>1. /\ asked' = asked + 1 /\ saved' = Saved(ms)
        /\ Note("switched", Pending)
        /\ \/ ~isUser /\ messages' = ms /\ last' = <<>> /\ UNCHANGED <<busy, gens, loads>>
           \/ /\ isUser /\ NeedsModel
              /\ LoadFirst("regenerate", edit)
              /\ messages' = ms /\ last' = <<>> /\ UNCHANGED <<busy, gens>>
           \/ isUser /\ ~NeedsModel /\ Generate(ms, edit, provider) /\ UNCHANGED loads
    BY <1>3 DEF ApplyEdit
  <2>2. m \in Message /\ (m.isUser => m.content # <<>>) /\ (isUser <=> m.isUser)
    BY <1>1, Kinds DEF OtherTypes
  <2>3. edit - 1 \in 0..Len(messages) /\ edit \in 1..Len(messages)
    BY <1>1, <1>3 DEF ChatTypes, Chats, OtherTypes
  <2>4. /\ Upto(messages, edit - 1) \in Chats /\ Len(Upto(messages, edit - 1)) = edit - 1
        /\ RepliesInPlace(messages) => RepliesInPlace(Upto(messages, edit - 1))
    BY <1>1, <2>3, UptoChat DEF ChatTypes
  <2>5. Fits(Upto(messages, edit - 1), m)
    BY <2>2 DEF Fits
  <2>6. ms \in Chats /\ Len(ms) = Len(Upto(messages, edit - 1)) + 1
        /\ ms[Len(Upto(messages, edit - 1)) + 1] = m
    BY <2>2, <2>4, AppendChat
  <2>7. RepliesInPlace(messages) => RepliesInPlace(ms)
    BY <2>2, <2>4, <2>5, AppendInPlace
  <2> HIDE DEF ms, m
  <2>8. Len(ms) = edit /\ ms[edit] = m /\ ms # <<>> /\ edit \in DOMAIN ms
    <3>1. Len(ms) = edit /\ ms[edit] = m
      BY <2>3, <2>4, <2>6
    <3> QED  BY <2>3, <2>6, <3>1 DEF Chats
  <2>9. /\ DOMAIN saved \subseteq DOMAIN saved'
        /\ \A s \in DOMAIN saved' : saved'[s] \in Chats
        /\ session \in DOMAIN saved' /\ saved'[session] = ms
        /\ Good => \A s \in DOMAIN saved' : RepliesInPlace(saved'[s])
    BY <2>1, <2>6, <2>7, <2>8, SavedChats DEF Good, IInv
  <2>10. accidents' = {} => accidents = {} /\ NobodyActive /\ Good
    BY <2>1, NothingPending DEF Note, IInv
  <2>11. MenuTypes' /\ OtherTypes'
    BY <1>1, <2>1, <2>9, MenuKept DEF OtherTypes
  <2>12. CASE messages' = ms /\ last' = <<>> /\ UNCHANGED gens
    <3>1. Settled'
      BY <1>1, <2>9, <2>12 DEF Settled
    <3>2. ChatTypes' /\ GenTypes' /\ (accidents' = {} => Good')
      BY <2>6, <2>7, <2>9, <2>10, <2>12, <3>1, ShownAnew DEF Good
    <3>3. LoadTypes'
      <4>1. CASE loads' = loads
        BY <1>1, <4>1 DEF LoadTypes
      <4>2. CASE LoadFirst("regenerate", edit)
        BY <1>1, <4>2, LoadFirstTypes DEF OtherTypes
      <4> QED  BY <2>1, <4>1, <4>2
    <3> QED  BY <2>11, <3>2, <3>3 DEF IInv, Types
  <2>13. CASE isUser /\ Generate(ms, edit, provider) /\ UNCHANGED loads
    <3>1. ms[edit].isUser /\ provider \in {"local", "remote"}
      BY <1>1, <2>2, <2>8, <2>13 DEF OtherTypes
    <3>2. ChatTypes' /\ GenTypes' /\ (accidents' = {} => Good')
      BY <2>6, <2>7, <2>8, <2>9, <2>10, <2>13, <3>1, Generated DEF Good
    <3> QED  BY <1>1, <2>11, <2>13, <3>2 DEF IInv, Types, LoadTypes
  <2> QED  BY <2>1, <2>12, <2>13
<1> QED  BY <1>2, <1>3

LEMMA LoadReturnsStep == ASSUME IInv, NEW l, LoadReturns(l) PROVE IInv'
<1> DEFINE next == loads[l].next
           i == loads[l].arg
           asks == next = "regenerate" /\ i \in DOMAIN messages /\ messages[i].isUser
<1>1. /\ UNCHANGED <<session, saved, menu, edit, asked>> /\ provider' = "local"
      /\ loads' = [loads EXCEPT ![l] = Over] /\ l \in DOMAIN loads
      /\ ChatTypes /\ GenTypes /\ LoadTypes /\ OtherTypes /\ MenuTypes
  BY DEF LoadReturns, LoadAt, dialogs, IInv, Types
<1>2. /\ \/ /\ next = "submit"
            /\ Generate(Append(messages, UserMessage(i)), Len(messages) + 1, "local")
         \/ asks /\ Generate(messages, i, "local")
         \/ next # "submit" /\ ~asks /\ busy' = FALSE /\ UNCHANGED <<messages, last, gens>>
      /\ accidents' = accidents \cup (IF next # "nothing" /\ Generating THEN {"overlap"} ELSE {})
                           \cup (IF asks /\ i # Len(messages) THEN {"moved"} ELSE {})
  BY <1>1 DEF LoadReturns
<1>3. LoadTypes' /\ MenuTypes' /\ OtherTypes'
  BY <1>1, LoadOver DEF MenuTypes, OtherTypes
<1>4. loads[l] \in Load /\ i \in Nat
  <2>1. loads[l] \in Load
    BY <1>1 DEF LoadTypes
  <2> QED  BY <2>1 DEF Load
<1>5. accidents' = {} =>
          /\ accidents = {} /\ Good
          /\ next # "nothing" => NobodyActive
          /\ asks => i = Len(messages)
  BY <1>1, <1>2, Inactive DEF IInv, Good, Active
<1>6. /\ \A s \in DOMAIN saved' : saved'[s] \in Chats
      /\ Good => \A s \in DOMAIN saved' : RepliesInPlace(saved'[s])
  BY <1>1 DEF ChatTypes, Good
<1>7. CASE next = "submit" /\ Generate(Append(messages, UserMessage(i)), Len(messages) + 1, "local")
  <2> DEFINE ms == Append(messages, UserMessage(i))
             k == Len(messages) + 1
  <2>1. /\ ms \in Chats /\ k \in DOMAIN ms /\ ms[k].isUser /\ k = Len(ms)
        /\ RepliesInPlace(messages) => RepliesInPlace(ms)
    BY <1>1, <1>4, AskedBelow DEF ChatTypes
  <2>2. Generate(ms, k, "local")
    BY <1>7
  <2>3. accidents' = {} =>
            /\ NobodyActive /\ k = Len(ms) /\ RepliesInPlace(ms)
            /\ \A s \in DOMAIN saved' : RepliesInPlace(saved'[s])
    BY <1>5, <1>6, <1>7, <2>1 DEF Good
  <2> HIDE DEF ms, k, next
  <2>4. ChatTypes' /\ GenTypes' /\ (accidents' = {} => Good')
    BY <1>6, <2>1, <2>2, <2>3, Generated
  <2> QED  BY <1>3, <2>4 DEF IInv, Types
<1>8. CASE asks /\ Generate(messages, i, "local")
  <2>1. messages \in Chats /\ i \in DOMAIN messages /\ messages[i].isUser
    BY <1>1, <1>8 DEF ChatTypes
  <2>2. accidents' = {} =>
            /\ NobodyActive /\ i = Len(messages) /\ RepliesInPlace(messages)
            /\ \A s \in DOMAIN saved' : RepliesInPlace(saved'[s])
    BY <1>5, <1>6, <1>8 DEF Good
  <2>3. Generate(messages, i, "local")
    BY <1>8
  <2> HIDE DEF asks, i
  <2>4. ChatTypes' /\ GenTypes' /\ (accidents' = {} => Good')
    BY <1>6, <2>1, <2>2, <2>3, Generated
  <2> QED  BY <1>3, <2>4 DEF IInv, Types
<1>9. CASE UNCHANGED <<messages, last, gens>>
  <2>1. Onward
    BY <1>1, <1>9, OnwardStutter
  <2>2. Good /\ NobodyActive' => Settled
    BY <1>9 DEF Good, NobodyActive
  <2>3. accidents' = {} => accidents = {}
    BY <1>5
  <2>4. UNCHANGED <<session, messages, last, saved>>
    BY <1>1, <1>9
  <2>5. ChatTypes' /\ GenTypes' /\ (accidents' = {} => Good')
    BY <1>9, <2>1, <2>2, <2>3, <2>4, ChatKept
  <2> QED  BY <1>3, <2>5 DEF IInv, Types
<1> QED  BY <1>2, <1>7, <1>8, <1>9

\* appendAssistantToken, with the next token of the reply that is active.
LEMMA TokenAppended ==
    ASSUME IInv, NEW g \in DOMAIN gens, gens[g].active,
           NEW token, token = <<gens[g].question, gens[g].got + 1>>
    PROVE  /\ Appended(token) \in Chats /\ Buffered(token) \in Seq(Token)
           /\ Good => RepliesInPlace(Appended(token))
           /\ Good /\ ~NoReplyShown =>
                /\ Len(Appended(token)) = Len(messages) /\ Len(messages) > 1
                /\ Appended(token)[Len(messages) - 1] = messages[Len(messages) - 1]
                /\ Partial(g)
                /\ Buffered(token) = [n \in 1..gens[g].got + 1 |-> <<gens[g].question, n>>]
<1>1. /\ messages \in Chats /\ last \in Seq(Token) /\ gens[g] \in Gen
  BY DEF IInv, Types, ChatTypes, GenTypes
<1>2. gens[g].question \in Nat /\ gens[g].got \in Nat /\ token \in Token
  BY <1>1 DEF Gen, Token
<1>3. CASE NoReplyShown
  BY <1>1, <1>3 DEF Appended, Buffered, Good
<1>4. CASE ~NoReplyShown
  <2> DEFINE n == Len(messages) - 1
             m == [isUser |-> FALSE, content |-> Append(last, token)]
  <2>1. n \in 0..Len(messages) /\ n \in Nat /\ Len(messages) = n + 1
    BY <1>1, <1>4 DEF NoReplyShown, Chats
  <2>2. /\ Append(last, token) \in Seq(Token)
        /\ m \in Message /\ ~m.isUser /\ m.content = Append(last, token)
    BY <1>1, <1>2 DEF Message
  <2> HIDE DEF m
  <2>3. Appended(token) = Append(Upto(messages, n), m) /\ Buffered(token) = Append(last, token)
    BY <1>4 DEF Appended, Buffered, m
  <2> HIDE DEF n
  <2>4. /\ Upto(messages, n) \in Chats /\ Len(Upto(messages, n)) = n
        /\ \A i \in 1..n : Upto(messages, n)[i] = messages[i]
        /\ RepliesInPlace(messages) => RepliesInPlace(Upto(messages, n))
    BY <1>1, <2>1, UptoChat
  <2>5. /\ Appended(token) \in Chats /\ Len(Appended(token)) = n + 1
        /\ \A i \in DOMAIN Upto(messages, n) : Appended(token)[i] = Upto(messages, n)[i]
    <3> DEFINE U == Upto(messages, n)
    <3>1. U \in Chats /\ Len(U) = n
      BY <2>4
    <3> HIDE DEF U
    <3>2. /\ Append(U, m) \in Chats /\ Len(Append(U, m)) = Len(U) + 1
          /\ \A i \in DOMAIN U : Append(U, m)[i] = U[i]
      BY <2>2, <3>1, AppendChat
    <3>3. Appended(token) = Append(U, m)
      BY <2>3 DEF U
    <3>4. /\ Appended(token) \in Chats /\ Len(Appended(token)) = n + 1
          /\ \A i \in DOMAIN U : Appended(token)[i] = U[i]
      BY <3>1, <3>2, <3>3
    <3> QED  BY <3>4 DEF U
  <2>6. ASSUME Good
        PROVE  /\ Partial(g) /\ n > 0
               /\ Append(last, token) =
                      [k \in 1..gens[g].got + 1 |-> <<gens[g].question, k>>]
               /\ Len(Append(last, token)) = gens[g].got + 1
    <3>1. Partial(g)
      BY <1>4, <2>6 DEF Good, Active
    <3>2. last = [k \in 1..gens[g].got |-> <<gens[g].question, k>>]
      BY <3>1 DEF Partial
    <3>3. Len(last) = gens[g].got
      <4>1. DOMAIN last = 1..gens[g].got
        BY <3>2
      <4>2. DOMAIN last = 1..Len(last) /\ Len(last) \in Nat
        BY <1>1
      <4> QED  BY <1>2, <4>1, <4>2
    <3>4. /\ DOMAIN Append(last, token) = 1..gens[g].got + 1
          /\ Len(Append(last, token)) = gens[g].got + 1
      BY <1>1, <1>2, <3>3
    <3>5. ASSUME NEW k \in 1..gens[g].got + 1
          PROVE  Append(last, token)[k] = <<gens[g].question, k>>
      <4>1. CASE k = gens[g].got + 1
        BY <1>1, <1>2, <3>3, <4>1
      <4>2. CASE k # gens[g].got + 1
        <5>1. k \in 1..gens[g].got
          BY <1>2, <4>2
        <5>2. Append(last, token)[k] = last[k]
          BY <1>1, <1>2, <3>3, <5>1
        <5> QED  BY <3>2, <5>1, <5>2
      <4> QED  BY <4>1, <4>2
    <3>6. Append(last, token) = [k \in 1..gens[g].got + 1 |-> Append(last, token)[k]]
      BY <2>2, <3>4
    <3>7. Append(last, token) = [k \in 1..gens[g].got + 1 |-> <<gens[g].question, k>>]
      BY <3>5, <3>6
    <3>8. Len(messages) > 1
      BY <3>1 DEF Partial
    <3>9. n > 0
      BY <2>1, <3>8
    <3> QED  BY <3>1, <3>4, <3>7, <3>9
  <2>7. ASSUME Good PROVE RepliesInPlace(Appended(token))
    <3>1. /\ Upto(messages, n) # <<>>
          /\ Upto(messages, n)[Len(Upto(messages, n))] = messages[n]
          /\ messages[n].isUser /\ messages[n].content[1][1] = gens[g].question
      BY <2>1, <2>4, <2>6, <2>7 DEF Partial
    <3>2. m.content = [k \in 1..Len(m.content) |-> <<gens[g].question, k>>]
      BY <2>2, <2>6, <2>7
    <3>3. Fits(Upto(messages, n), m)
      BY <3>1, <3>2 DEF Fits
    <3> QED  BY <2>2, <2>3, <2>4, <2>7, <3>3, AppendInPlace DEF Good
  <2>8. ASSUME Good PROVE Appended(token)[n] = messages[n]
    <3>1. n \in DOMAIN Upto(messages, n) /\ n \in 1..n
      BY <2>1, <2>4, <2>6, <2>8 DEF Chats
    <3> QED  BY <2>4, <2>5, <3>1
  <2>9. /\ Appended(token) \in Chats /\ Buffered(token) \in Seq(Token)
        /\ Good => RepliesInPlace(Appended(token))
    BY <2>2, <2>3, <2>5, <2>7
  <2>10. ASSUME Good
         PROVE  /\ Len(Appended(token)) = Len(messages) /\ Len(messages) > 1
                /\ Appended(token)[Len(messages) - 1] = messages[Len(messages) - 1]
                /\ Partial(g)
                /\ Buffered(token) = [k \in 1..gens[g].got + 1 |-> <<gens[g].question, k>>]
    <3>1. Len(messages) - 1 = n
      BY DEF n
    <3>2. Len(messages) > 1
      BY <2>6, <2>10 DEF Partial
    <3>3. Len(Appended(token)) = Len(messages)
      BY <2>1, <2>5
    <3>4. Buffered(token) = [k \in 1..gens[g].got + 1 |-> <<gens[g].question, k>>]
      BY <2>3, <2>6, <2>10
    <3> QED  BY <2>6, <2>8, <2>10, <3>1, <3>2, <3>3, <3>4
  <2> QED  BY <2>9, <2>10
<1> QED  BY <1>3, <1>4

LEMMA AppendTokenStep == ASSUME IInv, NEW g, AppendToken(g) PROVE IInv'
<1> DEFINE token == <<gens[g].question, gens[g].got + 1>>
           h == [gens[g] EXCEPT !.got = @ + 1]
<1>1. /\ g \in DOMAIN gens /\ gens[g].kind = "local" /\ gens[g].active
      /\ gens[g].got < gens[g].made
      /\ messages' = Appended(token) /\ last' = Buffered(token)
      /\ UNCHANGED <<session, saved, menu, edit, provider, loads, asked>>
      /\ accidents' = accidents
  BY DEF AppendToken, flags, dialogs
<1>2. ChatTypes /\ GenTypes /\ LoadTypes /\ OtherTypes /\ MenuTypes /\ gens[g] \in Gen
  BY <1>1 DEF IInv, Types, GenTypes
<1>3. /\ h \in Gen /\ h.kind = "local" /\ h.question = gens[g].question
      /\ h.got = gens[g].got + 1 /\ h.active /\ h.step = gens[g].step
  <2>1. gens[g].got + 1 \in Nat
    BY <1>2 DEF Gen
  <2> QED  BY <1>1, <1>2, <2>1 DEF Gen
<1>4. gens' = [gens EXCEPT ![g] = h]
  BY DEF AppendToken
<1> HIDE DEF h
<1>5. /\ gens' \in Seq(Gen) /\ Len(gens') = Len(gens) /\ DOMAIN gens' = DOMAIN gens
      /\ gens'[g] = h /\ \A k \in DOMAIN gens \ {g} : gens'[k] = gens[k]
  BY <1>1, <1>2, <1>3, <1>4 DEF GenTypes
<1>6. GenTypes'
  BY <1>2, <1>3, <1>5 DEF GenTypes
<1>7. /\ messages' \in Chats /\ last' \in Seq(Token)
      /\ Good => RepliesInPlace(messages')
      /\ Good /\ ~NoReplyShown =>
           /\ Len(messages') = Len(messages) /\ Len(messages) > 1
           /\ messages'[Len(messages) - 1] = messages[Len(messages) - 1]
           /\ Partial(g)
           /\ last' = [n \in 1..gens[g].got + 1 |-> <<gens[g].question, n>>]
  BY <1>1, TokenAppended
<1>8. ChatTypes'
  BY <1>1, <1>2, <1>7 DEF ChatTypes
<1>9. ASSUME accidents = {} PROVE Good'
  <2>1. Good /\ Active(g)
    BY <1>1, <1>9 DEF IInv, Good
  <2>2. gens[g].step \notin Ending
    BY <1>1, <1>2, <2>1 DEF Active, Gen
  <2>3. (NoReplyShown \/ Partial(g))'
    <3>1. CASE NoReplyShown
      BY <1>1, <3>1 DEF Appended, NoReplyShown
    <3>2. CASE ~NoReplyShown
      BY <1>3, <1>5, <1>7, <2>1, <3>2 DEF Partial
    <3> QED  BY <3>1, <3>2
  <2>4. Active(g)'
    BY <1>3, <1>5, <2>1, <2>2, <2>3 DEF Active, Ending
  <2>5. \A k \in DOMAIN gens' : gens'[k].active => k = g
    BY <1>5, <2>1 DEF Good, Active
  <2> QED  BY <1>1, <1>3, <1>5, <1>7, <2>1, <2>4, <2>5 DEF Good
<1>10. MenuTypes' /\ LoadTypes' /\ OtherTypes'
  BY <1>1, <1>2 DEF MenuTypes, LoadTypes, OtherTypes
<1> QED  BY <1>1, <1>6, <1>8, <1>9, <1>10 DEF IInv, Types

LEMMA FinishRemoteStep == ASSUME IInv, NEW g, FinishRemote(g) PROVE IInv'
<1> DEFINE token == <<gens[g].question, 1>>
           h == [gens[g] EXCEPT !.active = FALSE, !.step = "done"]
<1>1. /\ g \in DOMAIN gens /\ gens[g].kind = "remote" /\ gens[g].active
      /\ UNCHANGED <<session, menu, edit, provider, loads, asked>> /\ accidents' = accidents
      /\ \/ Finish(Appended(token)) /\ last' = Buffered(token)
         \/ Finish(messages) /\ last' = last
  BY DEF FinishRemote, At, dialogs
<1>2. ChatTypes /\ GenTypes /\ LoadTypes /\ OtherTypes /\ MenuTypes /\ gens[g] \in Gen
  BY <1>1 DEF IInv, Types, GenTypes
<1>3. h \in Gen /\ h.kind = gens[g].kind /\ h.question = gens[g].question
      /\ h.got = gens[g].got /\ ~h.active
  BY <1>2 DEF Gen, Steps
<1>4. gens' = [gens EXCEPT ![g] = h]
  BY DEF FinishRemote
<1> HIDE DEF h
<1>5. /\ Onward /\ gens'[g] = h
      /\ \A k \in DOMAIN gens \ {g} : gens'[k] = gens[k]
  BY <1>1, <1>2, <1>3, <1>4, OneMoves
<1>6. GenTypes' /\ DOMAIN gens' = DOMAIN gens
  BY <1>2, <1>5, OnwardFacts
<1>7. token = <<gens[g].question, gens[g].got + 1>>
  BY <1>1, <1>2 DEF GenTypes
<1>8. PICK ms \in Chats : /\ Finish(ms) /\ last' \in Seq(Token)
                          /\ Good => RepliesInPlace(ms)
  <2>1. messages \in Chats /\ last \in Seq(Token) /\ (Good => RepliesInPlace(messages))
    BY <1>2 DEF ChatTypes, Good
  <2>2. /\ Appended(token) \in Chats /\ Buffered(token) \in Seq(Token)
        /\ Good => RepliesInPlace(Appended(token))
    BY <1>1, <1>7, TokenAppended
  <2> HIDE DEF token
  <2> QED  BY <1>1, <2>1, <2>2
<1>9. /\ messages' = Trimmed(ms) /\ saved' = Saved(messages') /\ messages' \in Chats
      /\ Good => RepliesInPlace(messages')
  BY <1>8, TrimmedChat DEF Finish
<1>10. /\ DOMAIN saved \subseteq DOMAIN saved' /\ Settled'
       /\ \A s \in DOMAIN saved' : saved'[s] \in Chats
       /\ Good => \A s \in DOMAIN saved' : RepliesInPlace(saved'[s])
  BY <1>1, <1>9, SavedChats DEF IInv, Settled, Good
<1>11. ChatTypes'
  BY <1>8, <1>9, <1>10 DEF ChatTypes
<1>12. ASSUME accidents = {} PROVE Good'
  <2>1. Good
    BY <1>12 DEF IInv
  <2>2. NobodyActive'
    BY <1>1, <1>3, <1>5, <1>6, <2>1 DEF NobodyActive, Good, Active
  <2> QED  BY <1>9, <1>10, <2>1, <2>2, Quietly
<1>13. MenuTypes' /\ LoadTypes' /\ OtherTypes'
  BY <1>1, <1>2, <1>10, MenuKept DEF LoadTypes, OtherTypes
<1> QED  BY <1>1, <1>6, <1>11, <1>12, <1>13 DEF IInv, Types

------------------------------------------------------------------------------
(* What follows.                                                           *)

LEMMA InitHolds == Init => IInv
<1> SUFFICES ASSUME Init PROVE IInv
  OBVIOUS
<1>1. /\ messages = <<>> /\ last = <<>> /\ saved = NoSessions /\ gens = <<>> /\ loads = <<>>
      /\ menu.open = "no" /\ edit = 0 /\ asked = 0 /\ provider \in {"local", "remote"}
  BY DEF Init
<1>2. Types
  BY <1>1, NoMessages
     DEF Types, ChatTypes, MenuTypes, GenTypes, LoadTypes, OtherTypes, NoSessions
<1>3. Good
  BY <1>1, NoMessages DEF Good, Settled, NoSessions
<1> QED  BY <1>2, <1>3 DEF IInv

LEMMA StepHolds == IInv /\ [Next]_vars => IInv'
<1> SUFFICES ASSUME IInv, [Next]_vars PROVE IInv'
  OBVIOUS
<1>1. CASE User
  BY <1>1, SendStep, StopStep, OnStopStep, OpenAppMenuStep, MenusStep, NewChatStep,
     LoadSessionStep, DeleteSessionStep, ApplyEditStep, UnloadingStep DEF User
<1>2. ASSUME NEW l, Loading(l) \/ BeginLoading(l) PROVE IInv'
  BY <1>2, LoadingStep, LoadReturnsStep, UnloadingStep DEF Loading, BeginLoading
<1>3. ASSUME NEW g, Replying(g) \/ Answering(g) \/ Stopping(g) PROVE IInv'
  BY <1>3, RepliesStep, AppendTokenStep, FinishLocalStep, FinishRemoteStep, FinishLateStep
     DEF Replying, Answering, Stopping
<1>4. CASE Render
  BY <1>4, MenusStep
<1>5. CASE UNCHANGED vars
  BY <1>5, ElsewhereStep
     DEF vars, chat, flags, dialogs, MenuTypes, LoadTypes, OtherTypes, IInv, Types
<1> QED  BY <1>1, <1>2, <1>3, <1>4, <1>5 DEF Next, Pump

LEMMA Invariance == Spec => []IInv
BY InitHolds, StepHolds, PTL DEF Spec

\* appendAssistantToken writes to whatever message is last, and yet, unless an
\* accident happened, every reply stands below its question, on the screen and
\* in the saved sessions: for any number of questions, tokens, loads, sessions.
THEOREM RepliesArePlaced == Spec => []ReplyGoesToItsQuestion
<1>1. IInv => ReplyGoesToItsQuestion
  BY DEF IInv, Good, ReplyGoesToItsQuestion
<1> QED  BY Invariance, <1>1, PTL

\* finishGeneration, stopGeneration, onStop and the menus save enough: when
\* nothing is on its way, and no accident happened, the saved session is what
\* the screen shows.
THEOREM ScreenIsSaved == Spec => []ShownIsSaved
<1>1. IInv => ShownIsSaved
  BY NothingPending DEF IInv, Good, ShownIsSaved, Settled, NobodyActive
<1> QED  BY Invariance, <1>1, PTL
===============================================================================
