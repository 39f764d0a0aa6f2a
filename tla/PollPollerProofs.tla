-------------------------- MODULE PollPollerProofs --------------------------
(***************************************************************************)
(* Proofs about PollPoller, for any set of channels and descriptors: the   *)
(* pollfd array, the channels' indices and the descriptor map always agree,*)
(* no assert of the poller fails for owners that obey the calling rules,   *)
(* and no destroyed channel is left in the list of active channels.        *)
(***************************************************************************)
EXTENDS PollPoller, SequenceTheorems, TLAPS

(* The map leads from a descriptor to the live channel that has it. *)
MapInv ==
    \A f \in Fds : channels_[f] # None =>
        channels_[f] \in alive /\ fd_[channels_[f]] = f

(* Two live channels never share a descriptor. *)
FdInv == \A c, d \in alive : fd_[c] = fd_[d] => c = d

(* A registered channel finds its own entry at its index. *)
OwnEntry(c) ==
    /\ ValidIndex(c)
    /\ RealFd(Entry(c).fd) = fd_[c]
    /\ Entry(c).events = events_[c]
EntryInv == \A c \in Chans : HasChannel(c) => OwnEntry(c)

(* Every entry is some registered channel's. *)
CoverInv ==
    \A i \in 1..Len(pollfds_) : \E c \in Chans : HasChannel(c) /\ index_[c] = i - 1

(* A registered channel that wants nothing has its entry switched off. *)
IgnoredInv ==
    ~DisableUnadded =>
        \A c \in Chans : HasChannel(c) /\ events_[c] = {} => Entry(c).fd < 0

(* Channels still to be handled are registered; there are none between two *)
(* rounds of event handling.                                               *)
ActiveInv ==
    /\ \A c \in todo : HasChannel(c)
    /\ currentActiveChannel_ \notin todo
    /\ currentActiveChannel_ # None => currentActiveChannel_ \in alive
    /\ ~eventHandling_ => todo = {} /\ currentActiveChannel_ = None

IInv == /\ TypeOK
        /\ MapInv
        /\ FdInv
        /\ EntryInv
        /\ CoverInv
        /\ IgnoredInv
        /\ ActiveInv

(* The invariant holds for a new poller. *)
LEMMA InitIInv == Init => IInv
<1> SUFFICES ASSUME Init PROVE IInv
  OBVIOUS
<1> USE PollPollerAssumption DEF Init
<1>1. TypeOK
  <2>1. pollfds_ \in Seq(PollFd)
    OBVIOUS
  <2> QED BY <2>1 DEF TypeOK
<1>2. \A c \in Chans : ~HasChannel(c)
  BY DEF HasChannel
<1>3. MapInv /\ FdInv /\ EntryInv /\ CoverInv /\ IgnoredInv /\ ActiveInv
  BY <1>2 DEF MapInv, FdInv, EntryInv, CoverInv, IgnoredInv, ActiveInv
<1> QED
  BY <1>1, <1>3 DEF IInv

(* A new channel disturbs nothing (Channel::Channel). *)
LEMMA CreateIInv ==
    ASSUME IInv, NEW c \in Chans, NEW f \in Fds, Create(c, f) PROVE IInv'
<1> USE PollPollerAssumption DEF IInv, Create, loopVars
<1>1. ~HasChannel(c)
  BY DEF TypeOK, MapInv, HasChannel
<1>2. ~HasChannel(c)'
  BY DEF TypeOK, MapInv, HasChannel
<1>3. \A d \in Chans : d # c => /\ HasChannel(d)' <=> HasChannel(d)
                                /\ fd_'[d] = fd_[d] /\ events_'[d] = events_[d]
                                /\ index_'[d] = index_[d] /\ Entry(d)' = Entry(d)
  BY DEF TypeOK, HasChannel, Entry
<1>4. TypeOK'
  BY DEF TypeOK
<1>5. MapInv' /\ FdInv'
  BY DEF TypeOK, MapInv, FdInv
<1>6. EntryInv' /\ CoverInv' /\ IgnoredInv'
  BY <1>1, <1>2, <1>3 DEF TypeOK, EntryInv, OwnEntry, CoverInv, IgnoredInv, ValidIndex
<1>7. ActiveInv'
  BY <1>1, <1>3 DEF TypeOK, ActiveInv
<1> QED
  BY <1>4, <1>5, <1>6, <1>7

(* Destroying a channel out of the poller disturbs nothing (~Channel). *)
LEMMA DestroyIInv ==
    ASSUME IInv, NEW c \in Chans, Destroy(c) PROVE IInv'
<1> USE DEF IInv, Destroy, DestroyAsserts, MayDestroy, loopVars
<1>1. TypeOK'
  BY DEF TypeOK
<1>2. MapInv' /\ FdInv'
  BY DEF TypeOK, MapInv, FdInv, HasChannel
<1>3. EntryInv' /\ CoverInv' /\ IgnoredInv'
  BY DEF EntryInv, OwnEntry, CoverInv, IgnoredInv, HasChannel, Entry, ValidIndex
<1>4. ActiveInv'
  BY DEF ActiveInv, HasChannel
<1> QED
  BY <1>1, <1>2, <1>3, <1>4

(* updateChannel() of a new channel keeps the invariant. *)
LEMMA AddIInv ==
    ASSUME IInv, NEW c \in Chans, NEW ev \in SUBSET Event,
           Update(c, ev), AddPollFd(c, ev)
    PROVE  IInv'
<1> USE PollPollerAssumption DEF IInv
<1> DEFINE n == Len(pollfds_)
           e == [fd |-> fd_[c], events |-> ev]
<1>1. /\ c \in alive /\ index_[c] < 0 /\ channels_[fd_[c]] = None
      /\ ev = {} => DisableUnadded
      /\ events_' = [events_ EXCEPT ![c] = ev]
      /\ pollfds_' = Append(pollfds_, e)
      /\ index_' = [index_ EXCEPT ![c] = n]
      /\ channels_' = [channels_ EXCEPT ![fd_[c]] = c]
      /\ UNCHANGED <<alive, fd_, activeChannels_, todo, currentActiveChannel_, eventHandling_>>
  <2>1. index_[c] < 0 /\ index_[c] = -1
    BY DEF AddPollFd, TypeOK
  <2>2. channels_[fd_[c]] = None
    BY <2>1 DEF Update, UpdateAsserts
  <2> QED
    BY <2>1, <2>2 DEF Update, MayUpdate, AddPollFd, loopVars
<1>2. fd_[c] \in Fds /\ fd_[c] \in Nat /\ n \in Nat /\ e \in PollFd
  <2>1. fd_[c] \in Fds /\ fd_[c] \in Nat
    BY DEF TypeOK
  <2>2. n \in Nat
    BY LenProperties DEF TypeOK
  <2>3. e \in PollFd
    BY <2>1 DEF PollFd
  <2> QED BY <2>1, <2>2, <2>3
<1>3. /\ pollfds_' \in Seq(PollFd)
      /\ Len(pollfds_') = n + 1
      /\ \A i \in 1..n : pollfds_'[i] = pollfds_[i]
      /\ pollfds_'[n + 1] = e
  BY <1>1, <1>2, AppendProperties DEF TypeOK
<1>4. TypeOK'
  BY <1>1, <1>2, <1>3 DEF TypeOK
<1>5. MapInv' /\ FdInv'
  BY <1>1, <1>2 DEF TypeOK, MapInv, FdInv
<1>6. /\ HasChannel(c)' /\ ~HasChannel(c)
      /\ \A d \in Chans : d # c => (HasChannel(d)' <=> HasChannel(d))
  BY <1>1, <1>2 DEF TypeOK, HasChannel
<1>7. \A d \in Chans : d # c /\ HasChannel(d) =>
          index_'[d] = index_[d] /\ Entry(d)' = Entry(d) /\ ValidIndex(d)'
  <2> SUFFICES ASSUME NEW d \in Chans, d # c, HasChannel(d)
               PROVE  index_'[d] = index_[d] /\ Entry(d)' = Entry(d) /\ ValidIndex(d)'
    OBVIOUS
  <2>1. index_[d] \in 0..(n - 1)
    BY DEF EntryInv, OwnEntry, ValidIndex
  <2>2. index_'[d] = index_[d]
    BY <1>1 DEF TypeOK
  <2> QED
    BY <1>2, <1>3, <2>1, <2>2 DEF ValidIndex, Entry
<1>8. OwnEntry(c)' /\ Entry(c)' = e /\ index_'[c] = n
  <2>1. index_'[c] = n /\ Entry(c)' = e /\ ValidIndex(c)'
    BY <1>1, <1>2, <1>3 DEF TypeOK, ValidIndex, Entry
  <2>2. RealFd(e.fd) = fd_'[c] /\ e.events = events_'[c]
    BY <1>1, <1>2 DEF TypeOK, RealFd
  <2> QED
    BY <2>1, <2>2 DEF OwnEntry
<1>9. EntryInv'
  BY <1>1, <1>6, <1>7, <1>8 DEF TypeOK, EntryInv, OwnEntry
<1>10. CoverInv'
  <2> SUFFICES ASSUME NEW i \in 1..(n + 1)
               PROVE  \E d \in Chans : HasChannel(d)' /\ index_'[d] = i - 1
    BY <1>3 DEF CoverInv
  <2>1. CASE i = n + 1
    BY <1>2, <1>6, <1>8, <2>1
  <2>2. CASE i # n + 1
    <3>1. i \in 1..n
      BY <1>2, <2>2
    <3>2. PICK d \in Chans : HasChannel(d) /\ index_[d] = i - 1
      BY <3>1 DEF CoverInv
    <3> QED BY <1>6, <1>7, <3>2
  <2> QED BY <2>1, <2>2
<1>11. IgnoredInv'
  BY <1>1, <1>6, <1>7, <1>8 DEF TypeOK, IgnoredInv
<1>12. ActiveInv'
  BY <1>1, <1>6 DEF TypeOK, ActiveInv
<1> QED
  BY <1>4, <1>5, <1>9, <1>10, <1>11, <1>12

(* Two registered channels never have the same entry. *)
LEMMA DistinctIndex ==
    ASSUME IInv, NEW c \in Chans, NEW d \in Chans, HasChannel(c), HasChannel(d),
           index_[c] = index_[d]
    PROVE  c = d
  BY DEF IInv, TypeOK, EntryInv, OwnEntry, Entry, HasChannel

(* updateChannel() of a known channel keeps the invariant. *)
LEMMA ChangeIInv ==
    ASSUME IInv, NEW c \in Chans, NEW ev \in SUBSET Event,
           Update(c, ev), ChangePollFd(c, ev)
    PROVE  IInv'
<1> USE PollPollerAssumption DEF IInv
<1> DEFINE k == index_[c] + 1
           e == [fd |-> IF ev = {} THEN Ignored(fd_[c]) ELSE pollfds_[k].fd, events |-> ev]
<1>1. /\ c \in alive /\ HasChannel(c)
      /\ events_' = [events_ EXCEPT ![c] = ev]
      /\ pollfds_' = [pollfds_ EXCEPT ![k] = e]
      /\ UNCHANGED <<index_, channels_, alive, fd_,
                     activeChannels_, todo, currentActiveChannel_, eventHandling_>>
  BY DEF Update, MayUpdate, UpdateAsserts, ChangePollFd, loopVars, TypeOK
<1>2. fd_[c] \in Fds /\ OwnEntry(c) /\ k \in 1..Len(pollfds_) /\ pollfds_[k] \in PollFd
  BY <1>1 DEF TypeOK, EntryInv, OwnEntry, ValidIndex
<1>3. e \in PollFd /\ RealFd(e.fd) = fd_[c] /\ (ev = {} => e.fd < 0)
  BY <1>2 DEF PollFd, RealFd, Ignored, OwnEntry, Entry
<1>4. /\ pollfds_' \in Seq(PollFd)
      /\ Len(pollfds_') = Len(pollfds_)
      /\ \A i \in 1..Len(pollfds_) : pollfds_'[i] = IF i = k THEN e ELSE pollfds_[i]
  BY <1>1, <1>2, <1>3, ExceptSeq DEF TypeOK
<1>5. TypeOK'
  BY <1>1, <1>4 DEF TypeOK
<1>6. MapInv' /\ FdInv' /\ \A d \in Chans : HasChannel(d)' <=> HasChannel(d)
  BY <1>1 DEF MapInv, FdInv, HasChannel
<1>7. \A d \in Chans : d # c /\ HasChannel(d) => Entry(d)' = Entry(d) /\ ValidIndex(d)'
  <2> SUFFICES ASSUME NEW d \in Chans, d # c, HasChannel(d)
               PROVE  Entry(d)' = Entry(d) /\ ValidIndex(d)'
    OBVIOUS
  <2>1. index_[d] # index_[c]
    BY <1>1, DistinctIndex
  <2>2. OwnEntry(d)
    BY DEF EntryInv
  <2> QED
    BY <1>1, <1>4, <2>1, <2>2 DEF TypeOK, OwnEntry, ValidIndex, Entry
<1>8. Entry(c)' = e /\ ValidIndex(c)'
  BY <1>1, <1>2, <1>4 DEF OwnEntry, ValidIndex, Entry
<1>9. EntryInv'
  BY <1>1, <1>3, <1>6, <1>7, <1>8 DEF TypeOK, EntryInv, OwnEntry
<1>10. CoverInv'
  BY <1>1, <1>4, <1>6 DEF CoverInv
<1>11. IgnoredInv'
  BY <1>1, <1>3, <1>6, <1>7, <1>8 DEF TypeOK, IgnoredInv
<1>12. ActiveInv'
  BY <1>1, <1>6 DEF TypeOK, ActiveInv
<1> QED
  BY <1>5, <1>6, <1>9, <1>10, <1>11, <1>12

(* removeChannel() keeps the invariant, the moved entry included. *)
LEMMA RemoveIInv ==
    ASSUME IInv, NEW c \in Chans, Remove(c) PROVE IInv'
<1> USE PollPollerAssumption DEF IInv
<1> DEFINE n == Len(pollfds_)
           idx == index_[c]
           last == pollfds_[n]
           q == SubSeq(pollfds_, 1, n - 1)
<1>1. /\ c \in alive /\ HasChannel(c) /\ events_[c] = {}
      /\ eventHandling_ => c = currentActiveChannel_ \/ c \notin activeChannels_
      /\ channels_' = [channels_ EXCEPT ![fd_[c]] = None]
      /\ UNCHANGED <<alive, fd_, events_,
                     activeChannels_, todo, currentActiveChannel_, eventHandling_>>
  BY DEF Remove, MayRemove, loopVars
<1>2. n \in Nat /\ idx \in 0..(n - 1) /\ fd_[c] \in Fds
  <2>1. n \in Nat
    BY LenProperties DEF TypeOK
  <2>2. idx \in 0..(n - 1) /\ fd_[c] \in Fds
    BY <1>1 DEF TypeOK, EntryInv, OwnEntry, ValidIndex
  <2> QED BY <2>1, <2>2
<1>3. /\ q \in Seq(PollFd) /\ Len(q) = n - 1
      /\ \A i \in 1..(n - 1) : q[i] = pollfds_[i]
  <2>1. \A i \in 1..(n - 1) : pollfds_[i] \in PollFd
    BY <1>2 DEF TypeOK
  <2> HIDE DEF n
  <2> QED
    BY <1>2, <2>1, SubSeqProperties
<1>4. last \in PollFd
  BY <1>2 DEF TypeOK
<1>5. PICK e \in Chans : HasChannel(e) /\ index_[e] = n - 1
  BY <1>2 DEF CoverInv
<1>6. /\ ~HasChannel(c)'
      /\ \A d \in Chans : d # c => (HasChannel(d)' <=> HasChannel(d))
  BY <1>1, <1>2 DEF TypeOK, HasChannel
<1>7. MapInv' /\ FdInv'
  BY <1>1, <1>2 DEF TypeOK, MapInv, FdInv
<1>8. ActiveInv'
  <2>1. c \notin todo
    BY <1>1 DEF TypeOK, ActiveInv
  <2> QED
    BY <1>1, <1>6, <2>1 DEF TypeOK, ActiveInv
<1>9. \A d \in Chans : d # c /\ HasChannel(d) =>
          /\ index_[d] \in 0..(n - 1) /\ index_[d] # idx
          /\ d # e => index_[d] # n - 1
  BY <1>1, <1>5, DistinctIndex DEF EntryInv, OwnEntry, ValidIndex
<1>10. CASE idx = n - 1
  <2>1. pollfds_' = q /\ index_' = index_
    BY <1>10 DEF Remove
  <2>2. TypeOK'
    BY <1>1, <1>2, <1>3, <2>1 DEF TypeOK
  <2>3. c = e
    BY <1>1, <1>5, <1>10, DistinctIndex
  <2>4. \A d \in Chans : d # c /\ HasChannel(d) => Entry(d)' = Entry(d) /\ ValidIndex(d)'
    BY <1>2, <1>3, <1>9, <2>1, <2>3 DEF Entry, ValidIndex
  <2>5. EntryInv' /\ IgnoredInv'
    BY <1>1, <1>6, <2>4 DEF EntryInv, OwnEntry, IgnoredInv
  <2>6. CoverInv'
    <3> SUFFICES ASSUME NEW i \in 1..(n - 1)
                 PROVE  \E d \in Chans : HasChannel(d)' /\ index_'[d] = i - 1
      BY <1>3, <2>1 DEF CoverInv
    <3>1. PICK d \in Chans : HasChannel(d) /\ index_[d] = i - 1
      BY <1>2 DEF CoverInv
    <3>2. d # c
      BY <1>2, <1>10, <3>1
    <3> QED BY <1>6, <2>1, <3>1, <3>2
  <2> QED
    BY <1>7, <1>8, <2>2, <2>5, <2>6
<1>11. CASE idx # n - 1
  <2>1. e # c /\ Entry(e) = last /\ RealFd(last.fd) = fd_[e] /\ fd_[e] \in Fds
    BY <1>2, <1>5, <1>11 DEF TypeOK, EntryInv, OwnEntry, Entry
  <2>2. channels_'[fd_[e]] = e
    BY <1>1, <1>5, <2>1 DEF TypeOK, HasChannel
  <2>3. pollfds_' = [q EXCEPT ![idx + 1] = last] /\ index_' = [index_ EXCEPT ![e] = idx]
    BY <1>11, <2>1, <2>2 DEF Remove
  <2>4. idx + 1 \in 1..(n - 1)
    BY <1>2, <1>11
  <2>5. /\ pollfds_' \in Seq(PollFd) /\ Len(pollfds_') = n - 1
        /\ \A i \in 1..(n - 1) : pollfds_'[i] = IF i = idx + 1 THEN last ELSE pollfds_[i]
    <3> HIDE DEF n, idx, last, q
    <3>1. idx + 1 \in 1..Len(q)
      BY <1>3, <2>4
    <3>2. /\ pollfds_' \in Seq(PollFd)
          /\ Len(pollfds_') = Len(q)
          /\ \A j \in 1..Len(q) : pollfds_'[j] = IF j = idx + 1 THEN last ELSE q[j]
      BY <1>3, <1>4, <2>3, <3>1, ExceptSeq
    <3> QED
      BY <1>3, <3>2
  <2>6. TypeOK'
    BY <1>1, <1>2, <2>3, <2>5 DEF TypeOK
  <2>7. Entry(e)' = Entry(e) /\ ValidIndex(e)' /\ index_'[e] = idx
    BY <1>2, <2>1, <2>3, <2>4, <2>5 DEF TypeOK, Entry, ValidIndex
  <2>8. ASSUME NEW d \in Chans, d # c, d # e, HasChannel(d)
        PROVE  Entry(d)' = Entry(d) /\ ValidIndex(d)' /\ index_'[d] = index_[d]
    <3>1. index_'[d] = index_[d]
      BY <2>3, <2>8 DEF TypeOK
    <3>2. index_[d] \in 0..(n - 2) /\ index_[d] # idx
      BY <1>2, <1>9, <2>8
    <3>3. index_[d] + 1 \in 1..(n - 1) /\ index_[d] + 1 # idx + 1
      BY <1>2, <3>2
    <3>4. Entry(d)' = Entry(d)
      BY <2>5, <3>1, <3>3 DEF Entry
    <3>5. ValidIndex(d)'
      BY <1>2, <2>5, <3>1, <3>2 DEF ValidIndex
    <3> QED
      BY <3>1, <3>4, <3>5
  <2>9. \A d \in Chans : d # c /\ HasChannel(d) => Entry(d)' = Entry(d) /\ ValidIndex(d)'
    BY <2>7, <2>8
  <2>10. EntryInv' /\ IgnoredInv'
    BY <1>1, <1>6, <2>9 DEF EntryInv, OwnEntry, IgnoredInv
  <2>11. CoverInv'
    <3> SUFFICES ASSUME NEW i \in 1..(n - 1)
                 PROVE  \E d \in Chans : HasChannel(d)' /\ index_'[d] = i - 1
      BY <2>5 DEF CoverInv
    <3>1. CASE i = idx + 1
      BY <1>2, <1>5, <1>6, <2>1, <2>7, <3>1
    <3>2. CASE i # idx + 1
      <4>1. PICK d \in Chans : HasChannel(d) /\ index_[d] = i - 1
        BY <1>2 DEF CoverInv
      <4>2. d # c /\ d # e
        BY <1>2, <1>5, <3>2, <4>1
      <4> QED BY <1>6, <2>8, <4>1, <4>2
    <3> QED BY <3>1, <3>2
  <2> QED
    BY <1>7, <1>8, <2>6, <2>10, <2>11
<1> QED
  BY <1>10, <1>11

(* poll() returns registered channels only. *)
LEMMA PollIInv == ASSUME IInv, Poll PROVE IInv'
<1> USE PollPollerAssumption DEF IInv
<1>1. PICK ready \in SUBSET {i \in 1..Len(pollfds_) : Pollable(i)} :
          activeChannels_' = {channels_[pollfds_[i].fd] : i \in ready}
  BY DEF Poll
<1>2. ASSUME NEW i \in ready
      PROVE  channels_[pollfds_[i].fd] \in Chans /\ HasChannel(channels_[pollfds_[i].fd])
  <2>1. i \in 1..Len(pollfds_) /\ pollfds_[i].fd >= 0 /\ pollfds_[i] \in PollFd
    BY <1>1 DEF Pollable, TypeOK
  <2>2. PICK c \in Chans : HasChannel(c) /\ index_[c] = i - 1
    BY <2>1 DEF CoverInv
  <2>3. pollfds_[i].fd = fd_[c]
    BY <2>1, <2>2 DEF EntryInv, OwnEntry, Entry, RealFd, PollFd, TypeOK
  <2> QED
    BY <2>2, <2>3 DEF HasChannel
<1>3. activeChannels_' \subseteq Chans /\ \A c \in activeChannels_' : HasChannel(c)
  BY <1>1, <1>2
<1>4. /\ todo' = activeChannels_' /\ eventHandling_' = TRUE
      /\ UNCHANGED <<alive, fd_, events_, index_, channels_, pollfds_, currentActiveChannel_>>
  BY DEF Poll
<1>5. TypeOK'
  BY <1>3, <1>4 DEF TypeOK
<1>6. MapInv' /\ FdInv' /\ EntryInv' /\ CoverInv' /\ IgnoredInv'
  BY <1>4 DEF MapInv, FdInv, EntryInv, OwnEntry, CoverInv, IgnoredInv, HasChannel, Entry, ValidIndex
<1>7. currentActiveChannel_ = None
  BY DEF Poll, ActiveInv
<1>8. ActiveInv'
  BY <1>3, <1>4, <1>7 DEF ActiveInv, HasChannel
<1> QED
  BY <1>5, <1>6, <1>8

(* Channels still to be handled are alive. *)
LEMMA TodoAlive == ASSUME IInv PROVE todo \subseteq alive
<1> SUFFICES ASSUME NEW c \in todo PROVE c \in alive
  OBVIOUS
<1>1. c \in Chans /\ c # None /\ fd_[c] \in Fds
  BY PollPollerAssumption DEF IInv, TypeOK
<1>2. channels_[fd_[c]] = c
  BY DEF IInv, ActiveInv, HasChannel
<1> QED
  BY <1>1, <1>2 DEF IInv, MapInv

(* Every step keeps the invariant. *)
LEMMA NextIInv == IInv /\ [Next]_vars => IInv'
<1> SUFFICES ASSUME IInv, [Next]_vars PROVE IInv'
  OBVIOUS
<1>1. ASSUME NEW c \in Chans, NEW ev \in SUBSET Event, Update(c, ev) PROVE IInv'
  BY <1>1, AddIInv, ChangeIInv DEF Update
<1>2. ASSUME UNCHANGED <<alive, fd_, events_, index_, channels_, pollfds_>>
      PROVE  /\ MapInv /\ FdInv /\ EntryInv /\ CoverInv /\ IgnoredInv
               => MapInv' /\ FdInv' /\ EntryInv' /\ CoverInv' /\ IgnoredInv'
             /\ \A c \in Chans : HasChannel(c)' <=> HasChannel(c)
  BY <1>2 DEF MapInv, FdInv, EntryInv, OwnEntry, CoverInv, IgnoredInv, HasChannel,
              Entry, ValidIndex
<1>3. ASSUME NEW c \in Chans, HandleEvent(c) PROVE IInv'
  <2>1. TypeOK'
    BY <1>3 DEF IInv, TypeOK, HandleEvent
  <2>2. c \in alive
    BY <1>3, TodoAlive DEF HandleEvent
  <2>3. ActiveInv'
    BY <1>2, <1>3, <2>2 DEF IInv, TypeOK, ActiveInv, HandleEvent
  <2> QED
    BY <1>2, <1>3, <2>1, <2>3 DEF IInv, HandleEvent
<1>4. CASE EventsDone
  <2>1. TypeOK' /\ ActiveInv'
    BY <1>4, PollPollerAssumption DEF IInv, TypeOK, ActiveInv, EventsDone
  <2> QED
    BY <1>2, <1>4, <2>1 DEF IInv, EventsDone
<1>5. CASE UNCHANGED vars
  <2>1. TypeOK' /\ ActiveInv'
    BY <1>2, <1>5 DEF IInv, TypeOK, ActiveInv, vars, HasChannel
  <2> QED
    BY <1>2, <1>5, <2>1 DEF IInv, vars
<1> QED
  BY <1>1, <1>3, <1>4, <1>5, CreateIInv, DestroyIInv, RemoveIInv, PollIInv DEF Next

(* The inductive invariant holds in every reachable state. *)
THEOREM Invariance == Spec => []IInv
  BY InitIInv, NextIInv, PTL DEF Spec

(* Every variable of the poller keeps its type. *)
THEOREM TypeCorrect == Spec => []TypeOK
<1>1. IInv => TypeOK
  BY DEF IInv
<1> QED
  BY <1>1, Invariance, PTL

(* The pollfd array, the channels' indices and the descriptor map agree     *)
(* after any sequence of updateChannel and removeChannel calls.             *)
THEOREM IndexCorrect == Spec => []IndexAgreement
<1>1. ASSUME IInv PROVE IndexAgreement
  <2>1. \A c \in Registered : c \in Chans /\ HasChannel(c)
    BY <1>1, PollPollerAssumption DEF IInv, TypeOK, MapInv, Registered, HasChannel
  <2>2. \A c \in Chans : HasChannel(c) => c \in Registered
    BY <1>1 DEF IInv, TypeOK, Registered, HasChannel
  <2> QED
    BY <1>1, <2>1, <2>2 DEF IInv, MapInv, EntryInv, OwnEntry, CoverInv, IndexAgreement
<1> QED
  BY <1>1, Invariance, PTL

(* If no owner disables a channel it never enabled, no assert of            *)
(* updateChannel, removeChannel or ~Channel fails.                          *)
THEOREM AssertsNeverFail == ASSUME ~DisableUnadded PROVE Spec => []AssertsHold
<1>1. ASSUME IInv PROVE AssertsHold
  <2> USE <1>1, PollPollerAssumption DEF IInv
  <2> SUFFICES ASSUME NEW c \in Chans
               PROVE  /\ \A ev \in SUBSET Event : MayUpdate(c, ev) => UpdateAsserts(c)
                      /\ MayRemove(c) => RemoveAsserts(c)
                      /\ MayDestroy(c) => DestroyAsserts(c)
    BY DEF AssertsHold
  <2>1. fd_[c] \in Fds /\ fd_[c] \in Nat /\ index_[c] \in Nat \cup {-1}
    BY DEF TypeOK
  <2>2. HasChannel(c) => OwnEntry(c) /\ index_[c] >= 0
    BY DEF EntryInv, OwnEntry, ValidIndex
  <2>3. HasChannel(c) => Entry(c) \in PollFd
    BY <2>2 DEF TypeOK, OwnEntry, ValidIndex, Entry
  <2>4. ASSUME NEW ev \in SUBSET Event, MayUpdate(c, ev) PROVE UpdateAsserts(c)
    <3>1. CASE index_[c] < 0
      <4>1. c \in alive /\ ~HasChannel(c)
        BY <2>1, <2>2, <2>4, <3>1 DEF MayUpdate
      <4>2. channels_[fd_[c]] # None => /\ channels_[fd_[c]] \in alive
                                        /\ fd_[channels_[fd_[c]]] = fd_[c]
        BY <2>1 DEF MapInv
      <4>3. channels_[fd_[c]] = None
        BY <4>1, <4>2 DEF FdInv, HasChannel
      <4> QED BY <3>1, <4>3 DEF UpdateAsserts
    <3>2. CASE ~(index_[c] < 0)
      <4>1. HasChannel(c)
        BY <2>1, <2>4, <3>2 DEF MayUpdate
      <4> QED
        BY <2>1, <2>2, <2>3, <3>2, <4>1 DEF UpdateAsserts, OwnEntry, RealFd, Ignored, PollFd
    <3> QED BY <3>1, <3>2
  <2>5. ASSUME MayRemove(c) PROVE RemoveAsserts(c)
    <3>1. HasChannel(c) /\ events_[c] = {}
      BY <2>5 DEF MayRemove
    <3>2. Entry(c).fd < 0
      BY <3>1 DEF IgnoredInv
    <3> QED
      BY <2>1, <2>2, <2>3, <3>1, <3>2 DEF RemoveAsserts, OwnEntry, RealFd, Ignored, PollFd
  <2>6. MayDestroy(c) => DestroyAsserts(c)
    BY <2>2 DEF MayDestroy, DestroyAsserts
  <2> QED
    BY <2>4, <2>5, <2>6
<1> QED
  BY <1>1, Invariance, PTL

(* handleEvent() is never called on a destroyed channel. *)
THEOREM ActiveAlive == Spec => []NoDanglingActive
<1>1. ASSUME IInv PROVE NoDanglingActive
  BY <1>1, TodoAlive DEF IInv, ActiveInv, NoDanglingActive
<1> QED
  BY <1>1, Invariance, PTL

=============================================================================
