----------------------------- MODULE PollPoller -----------------------------
(***************************************************************************)
(* net/poller/PollPoller.cpp with the Channel objects it serves            *)
(* (net/Channel.h, net/Channel.cpp) and the event half of EventLoop::loop: *)
(* the pollfd array, the index each channel keeps into it, the map from    *)
(* descriptors to channels, and the list of active channels being handled. *)
(*                                                                         *)
(* The asserts of the code are the operators UpdateAsserts, RemoveAsserts  *)
(* and DestroyAsserts: an action is the call when its asserts hold, and    *)
(* AssertsHold says that they hold whenever the call may be made.          *)
(***************************************************************************)
EXTENDS Integers, Sequences

CONSTANTS
    Chans,           \* channel objects; a destroyed one may be allocated again
    Fds,             \* descriptors the system hands out
    None,            \* no channel
    DisableUnadded   \* TRUE: an owner may disableAll() a channel it never enabled,
                     \* as ~Acceptor does when listen() was not called

ASSUME PollPollerAssumption ==
    /\ Fds \subseteq Nat
    /\ None \notin Chans
    /\ DisableUnadded \in BOOLEAN

VARIABLES
    alive,            \* constructed channels
    fd_, events_, index_,
    channels_,        \* descriptor -> channel
    pollfds_,         \* the array passed to WSAPoll
    activeChannels_,  \* channels the last poll() returned
    todo,             \* those not handled yet
    currentActiveChannel_,
    eventHandling_

vars == <<alive, fd_, events_, index_, channels_, pollfds_,
          activeChannels_, todo, currentActiveChannel_, eventHandling_>>

Event == {"read", "write"}
PollFd == [fd : Int, events : SUBSET Event]

(* -1 is "not added to the poller"; TLA+ sequences count from 1, so entry i *)
(* of pollfds_ is pollfds_[i + 1].                                          *)
TypeOK ==
    /\ alive \subseteq Chans
    /\ fd_ \in [Chans -> Fds]
    /\ events_ \in [Chans -> SUBSET Event]
    /\ index_ \in [Chans -> Nat \cup {-1}]
    /\ channels_ \in [Fds -> Chans \cup {None}]
    /\ pollfds_ \in Seq(PollFd)
    /\ activeChannels_ \subseteq Chans
    /\ todo \subseteq activeChannels_
    /\ currentActiveChannel_ \in Chans \cup {None}
    /\ eventHandling_ \in BOOLEAN

Init ==
    /\ alive = {}
    /\ fd_ \in [Chans -> Fds]
    /\ events_ = [c \in Chans |-> {}]
    /\ index_ = [c \in Chans |-> -1]
    /\ channels_ = [f \in Fds |-> None]
    /\ pollfds_ = <<>>
    /\ activeChannels_ = {}
    /\ todo = {}
    /\ currentActiveChannel_ = None
    /\ eventHandling_ = FALSE

HasChannel(c) == channels_[fd_[c]] = c     \* Poller::hasChannel
Ignored(f) == -f - 1                       \* how a pollfd is switched off
Entry(c) == pollfds_[index_[c] + 1]
ValidIndex(c) == index_[c] \in 0..(Len(pollfds_) - 1)

loopVars == <<activeChannels_, todo, currentActiveChannel_, eventHandling_>>

-----------------------------------------------------------------------------
(* Channel's constructor, on a descriptor no other channel is using. *)
Create(c, f) ==
    /\ c \notin alive
    /\ \A d \in alive : fd_[d] # f
    /\ alive' = alive \cup {c}
    /\ fd_' = [fd_ EXCEPT ![c] = f]
    /\ events_' = [events_ EXCEPT ![c] = {}]
    /\ index_' = [index_ EXCEPT ![c] = -1]
    /\ UNCHANGED <<channels_, pollfds_, loopVars>>

(* When an owner destroys a channel: out of the poller, and not from inside *)
(* the channel's own handleEvent().                                         *)
MayDestroy(c) ==
    /\ c \in alive
    /\ index_[c] = -1 \/ ~HasChannel(c)
    /\ c # currentActiveChannel_

DestroyAsserts(c) == ~HasChannel(c)

Destroy(c) ==
    /\ MayDestroy(c)
    /\ DestroyAsserts(c)
    /\ alive' = alive \ {c}
    /\ UNCHANGED <<fd_, events_, index_, channels_, pollfds_, loopVars>>

-----------------------------------------------------------------------------
(* Channel::enableReading, disableReading, enableWriting, disableWriting    *)
(* and disableAll: change events_ to ev and call updateChannel.  An owner   *)
(* does not use a channel it has removed.                                   *)
MayUpdate(c, ev) ==
    /\ c \in alive
    /\ index_[c] = -1 \/ HasChannel(c)
    /\ index_[c] = -1 /\ ev = {} => DisableUnadded

UpdateAsserts(c) ==
    IF index_[c] < 0
    THEN channels_[fd_[c]] = None
    ELSE /\ HasChannel(c)
         /\ ValidIndex(c)
         /\ Entry(c).fd \in {fd_[c], Ignored(fd_[c])}

(* Mutant: the index is the size of the array after push_back. *)
AddPollFdOffByOne(c, ev) ==
    /\ index_[c] < 0
    /\ pollfds_' = Append(pollfds_, [fd |-> fd_[c], events |-> ev])
    /\ index_' = [index_ EXCEPT ![c] = Len(pollfds_) + 1]
    /\ channels_' = [channels_ EXCEPT ![fd_[c]] = c]

AddPollFd(c, ev) ==
    /\ index_[c] < 0
    /\ pollfds_' = Append(pollfds_, [fd |-> fd_[c], events |-> ev])
    /\ index_' = [index_ EXCEPT ![c] = Len(pollfds_)]
    /\ channels_' = [channels_ EXCEPT ![fd_[c]] = c]

(* Mutant: a descriptor is switched off by its negation, which 0 does not   *)
(* survive.                                                                 *)
ChangePollFdNegated(c, ev) ==
    /\ index_[c] >= 0
    /\ pollfds_' = [pollfds_ EXCEPT ![index_[c] + 1] =
                       [fd |-> IF ev = {} THEN -fd_[c] ELSE @.fd, events |-> ev]]
    /\ UNCHANGED <<index_, channels_>>

(* An entry whose channel wants nothing is switched off; nothing switches   *)
(* it on again.                                                             *)
ChangePollFd(c, ev) ==
    /\ index_[c] >= 0
    /\ pollfds_' = [pollfds_ EXCEPT ![index_[c] + 1] =
                       [fd |-> IF ev = {} THEN Ignored(fd_[c]) ELSE @.fd,
                        events |-> ev]]
    /\ UNCHANGED <<index_, channels_>>

Update(c, ev) ==
    /\ MayUpdate(c, ev)
    /\ UpdateAsserts(c)
    /\ events_' = [events_ EXCEPT ![c] = ev]
    /\ AddPollFd(c, ev) \/ ChangePollFd(c, ev)
    /\ UNCHANGED <<alive, fd_, loopVars>>

-----------------------------------------------------------------------------
(* Mutant: any channel may go while events are being handled. *)
MayRemoveActive(c) == c \in alive /\ HasChannel(c) /\ events_[c] = {}

(* Channel::remove and EventLoop::removeChannel: the owner disabled the     *)
(* channel first; while events are being handled only the current channel   *)
(* or one that is not active may go.                                        *)
MayRemove(c) ==
    /\ c \in alive
    /\ HasChannel(c)
    /\ events_[c] = {}
    /\ eventHandling_ => c = currentActiveChannel_ \/ c \notin activeChannels_

RemoveAsserts(c) ==
    /\ ValidIndex(c)
    /\ Entry(c).fd = Ignored(fd_[c])
    /\ Entry(c).events = events_[c]

(* The descriptor behind a possibly switched-off entry. *)
RealFd(f) == IF f < 0 THEN -f - 1 ELSE f

(* PollPoller::removeChannel: the last entry takes the place of the removed *)
(* one, and its channel's index follows.  The removed channel keeps its.    *)
Remove(c) ==
    /\ MayRemove(c)
    /\ RemoveAsserts(c)
    /\ channels_' = [channels_ EXCEPT ![fd_[c]] = None]
    /\ LET n == Len(pollfds_)
           idx == index_[c]
           last == pollfds_[n]
       IN  IF idx = n - 1
           THEN /\ pollfds_' = SubSeq(pollfds_, 1, n - 1)
                /\ UNCHANGED index_
           ELSE /\ pollfds_' = [SubSeq(pollfds_, 1, n - 1) EXCEPT ![idx + 1] = last]
                /\ index_' = [index_ EXCEPT ![channels_'[RealFd(last.fd)]] = idx]
    /\ UNCHANGED <<alive, fd_, events_, loopVars>>

-----------------------------------------------------------------------------
(* PollPoller::poll and fillActiveChannels: WSAPoll reports any of the      *)
(* entries that are not switched off and want something.                    *)
Pollable(i) == pollfds_[i].fd >= 0 /\ pollfds_[i].events # {}

Poll ==
    /\ ~eventHandling_
    /\ \E ready \in SUBSET {i \in 1..Len(pollfds_) : Pollable(i)} :
          activeChannels_' = {channels_[pollfds_[i].fd] : i \in ready}
    /\ todo' = activeChannels_'
    /\ eventHandling_' = TRUE
    /\ UNCHANGED <<alive, fd_, events_, index_, channels_, pollfds_,
                   currentActiveChannel_>>

(* The loop moves on to another active channel; its handleEvent() runs      *)
(* callbacks that make any of the calls above.                              *)
HandleEvent(c) ==
    /\ eventHandling_
    /\ c \in todo
    /\ todo' = todo \ {c}
    /\ currentActiveChannel_' = c
    /\ UNCHANGED <<alive, fd_, events_, index_, channels_, pollfds_,
                   activeChannels_, eventHandling_>>

(* The next iteration starts with activeChannels_.clear(). *)
EventsDone ==
    /\ eventHandling_
    /\ todo = {}
    /\ eventHandling_' = FALSE
    /\ currentActiveChannel_' = None
    /\ activeChannels_' = {}
    /\ UNCHANGED <<alive, fd_, events_, index_, channels_, pollfds_, todo>>

Next ==
    \/ \E c \in Chans :
          \/ \E f \in Fds : Create(c, f)
          \/ Destroy(c)
          \/ \E ev \in SUBSET Event : Update(c, ev)
          \/ Remove(c)
          \/ HandleEvent(c)
    \/ Poll
    \/ EventsDone

Spec == Init /\ [][Next]_vars

-----------------------------------------------------------------------------
Registered == {c \in Chans : \E f \in Fds : channels_[f] = c}

(* The poller's three structures agree: every registered channel finds its  *)
(* own entry at its index, with its events, every entry belongs to exactly  *)
(* one registered channel, and the map leads back to the channel            *)
(* (PollPoller::updateChannel, removeChannel).                              *)
IndexAgreement ==
    /\ \A f \in Fds : channels_[f] # None => channels_[f] \in alive /\ fd_[channels_[f]] = f
    /\ \A c \in Registered :
          /\ ValidIndex(c)
          /\ RealFd(Entry(c).fd) = fd_[c]
          /\ Entry(c).events = events_[c]
    /\ \A i \in 1..Len(pollfds_) : \E c \in Registered : index_[c] = i - 1

(* No assert of Channel, EventLoop or PollPoller fails for owners that obey *)
(* the calling rules (PollPoller.cpp, updateChannel and removeChannel;      *)
(* Channel.cpp, ~Channel).                                                  *)
AssertsHold ==
    \A c \in Chans :
        /\ \A ev \in SUBSET Event : MayUpdate(c, ev) => UpdateAsserts(c)
        /\ MayRemove(c) => RemoveAsserts(c)
        /\ MayDestroy(c) => DestroyAsserts(c)

(* loop() never calls handleEvent() on a destroyed channel: what is left of *)
(* activeChannels_ is alive, whatever the callbacks before it removed       *)
(* (EventLoop::loop, EventLoop::removeChannel).                             *)
NoDanglingActive ==
    /\ todo \subseteq alive
    /\ currentActiveChannel_ # None => currentActiveChannel_ \in alive

(* updateChannel "changes the interested I/O events" (Poller.h): WSAPoll    *)
(* watches the descriptor of every registered channel that wants something. *)
InterestIsPolled ==
    \A c \in Registered : events_[c] # {} => Entry(c).fd = fd_[c]

=============================================================================
