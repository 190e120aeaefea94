----------------------------- MODULE Application -----------------------------
(***************************************************************************)
(* The window of the X11 build (window_x11.cpp) and the console            *)
(* (console.cpp, console_posix.cpp): how the window gets and gives back    *)
(* its resources when steps of its construction fail, the message loop,    *)
(* and the console's thread, which calls observers and ends the program    *)
(* at the end of its input.                                                *)
(*                                                                         *)
(* The application owns the order: the window is made before the console   *)
(* and destroyed after it, and observers change while there is no console. *)
(*                                                                         *)
(* Left out: a failing XCreateColormap or XCreateWindow is an X error,     *)
(* which ends the process.  The console's input is a terminal's or a       *)
(* file's: at the end of a pipe poll reports POLLHUP without POLLIN and    *)
(* the thread spins, and of lines that come together std::cin keeps all    *)
(* but the first until there is more input.                                *)
(***************************************************************************)
EXTENDS Naturals, Sequences, FiniteSets, SequencesExt

CONSTANTS
    Commands,       \* the first word of a line
    Observed,       \* Commands -> the types of the parameters of its observer
    Lines,          \* lines of input: a command and the types of its arguments
    Unspaced,       \* the words of a line without a space
    MaxLines,       \* bound: lines begun and window events
    NULL

VARIABLES
    window,         \* where constructor, loop or destructor is, and its step
    held,           \* resources got and not given back
    wrong,          \* resources used or given back while they were not held
    unchecked,      \* ghost: resources that failed, and the code does not look
    pending,        \* events of the X server
    observers,      \* commands that are observed
    console,        \* "none", "running", "joining", "gone"
    stdin,          \* "nothing", "partial" (of a line), "line", "last" (without its
                    \* newline, at the end), "ended"
    reader,         \* the console's thread: "none", "poll", "getline", "ended"
    callback_exit,  \* set while there is a console
    called,         \* what the last line called
    lines           \* bound

windowVars == <<window, held, wrong, unchecked, pending>>
consoleVars == <<observers, console, stdin, reader, callback_exit, called>>
appVars == <<windowVars, consoleVars, lines>>

AppInit ==
    /\ window = <<"construct", 1>>
    /\ held = {}
    /\ wrong = {}
    /\ unchecked = {}
    /\ pending = <<>>
    /\ observers \in SUBSET Commands
    /\ console = "none"
    /\ stdin = "nothing"
    /\ reader = "none"
    /\ callback_exit = NULL
    /\ called = NULL
    /\ lines = 0

-----------------------------------------------------------------------------
(* Construction, in order.  The first group is guarded or got before there *)
(* is anything else: when one of them fails the constructor throws.        *)

Steps == <<"display", "glXQueryExtension", "glXQueryVersion", "fb_configs", "visual_info",
           "colormap", "window", "glx_context", "glx_window", "input_method", "input_context">>
Throwing == {"display", "glXQueryExtension", "glXQueryVersion", "fb_configs", "visual_info"}
Queries == {"glXQueryExtension", "glXQueryVersion"}

Step == window[2]
AtStep == window[1] = "construct" /\ Step \in DOMAIN Steps

\* What a resource is made from, and must be given back before.
NeedsOf(r) ==
    CASE r = "display" -> {}
      [] r = "visual_info" -> {"display", "fb_configs"}
      [] r = "colormap" -> {"display", "visual_info"}
      [] r = "window" -> {"display", "visual_info", "colormap"}
      [] r = "glx_context" -> {"display", "fb_configs"}
      [] r = "glx_window" -> {"display", "fb_configs", "window"}
      [] r = "input_context" -> {"display", "input_method", "window"}
      [] OTHER -> {"display"}

\* The destructors of the guards; closing the display frees what the server keeps.
Display_guard(h) == h \ {"display", "colormap"}
GLXFBConfig_guard(h) == h \ {"fb_configs"}
XVisualInfo_guard(h) == h \ {"visual_info"}
Unwind(h) == Display_guard(GLXFBConfig_guard(XVisualInfo_guard(h)))

Acquire ==
    /\ AtStep
    /\ wrong' = wrong \cup (NeedsOf(Steps[Step]) \ held)
    /\ window' = <<"construct", Step + 1>>
    /\ held' = held \cup ({Steps[Step]} \ Queries)
    /\ UNCHANGED <<unchecked, pending, consoleVars, lines>>

Throw ==
    /\ AtStep
    /\ Steps[Step] \in Throwing
    /\ held' = Unwind(held)
    /\ window' = <<"gone", 0>>
    /\ UNCHANGED <<wrong, unchecked, pending, consoleVars, lines>>

\* What glXCreateContext and glXCreateWindow return is kept without a look.
CreateGl ==
    /\ AtStep
    /\ Steps[Step] \in {"glx_context", "glx_window"}
    /\ unchecked' = unchecked \cup {Steps[Step]}
    /\ window' = <<"construct", Step + 1>>
    /\ UNCHANGED <<held, wrong, pending, consoleVars, lines>>

\* create_input_method closes the method again when its styles cannot be had, and
\* create_input_context needs a method; the context is destroyed again when its
\* values cannot be had.
create_input_method == AtStep /\ Steps[Step] = "input_method"
create_input_context == AtStep /\ Steps[Step] = "input_context"

\* What XOpenIM returns is not looked at either: XGetIMValues dereferences it.
XOpenIM ==
    /\ create_input_method
    /\ wrong' = wrong \cup {"input_method"}
    /\ unchecked' = unchecked \cup {"input_method"}
    /\ window' = <<"crashed", 0>>
    /\ UNCHANGED <<held, pending, consoleVars, lines>>

NoInputMethod ==
    /\ create_input_method
    /\ window' = <<"construct", Len(Steps) + 1>>
    /\ UNCHANGED <<held, wrong, unchecked, pending, consoleVars, lines>>

NoInputContext ==
    /\ create_input_context
    /\ window' = <<"construct", Step + 1>>
    /\ UNCHANGED <<held, wrong, unchecked, pending, consoleVars, lines>>

\* XMapWindow; the display is detached from its guard, the other guards end.
Constructed ==
    /\ window = <<"construct", Len(Steps) + 1>>
    /\ held' = GLXFBConfig_guard(XVisualInfo_guard(held))
    /\ window' = <<"loop", 0>>
    /\ UNCHANGED <<wrong, unchecked, pending, consoleVars, lines>>

-----------------------------------------------------------------------------
(* execute: the message loop.  Events for devices, viewer and ui are       *)
(* passed on; their own modules say what becomes of them.                  *)

Events == {"input", "Expose", "ClientMessage", "other"}

Event(e) ==
    /\ window[1] = "loop"
    /\ lines < MaxLines
    /\ pending' = Append(pending, e)
    /\ lines' = lines + 1
    /\ UNCHANGED <<window, held, wrong, unchecked, consoleVars>>

\* Mutant: the loop waits for another event when the window is unmapped.
message_loop_deaf ==
    /\ window[1] = "loop"
    /\ pending # <<>>
    /\ pending' = Tail(pending) \o (IF Head(pending) = "ClientMessage" THEN <<"UnmapNotify">> ELSE <<>>)
    /\ UNCHANGED <<window, held, wrong, unchecked, consoleVars, lines>>

\* WM_DELETE_WINDOW unmaps the window, and the loop ends when that is notified.
message_loop ==
    /\ window[1] = "loop"
    /\ pending # <<>>
    /\ window' = IF Head(pending) = "UnmapNotify" THEN <<"returned", 0>> ELSE window
    /\ pending' = Tail(pending) \o (IF Head(pending) = "ClientMessage" THEN <<"UnmapNotify">> ELSE <<>>)
    /\ UNCHANGED <<held, wrong, unchecked, consoleVars, lines>>

\* close is XUnmapWindow, from any thread.
close(w, events) == [pending |-> Append(events, "UnmapNotify"), wrong |-> {"display", "window"} \ w]

\* The destructor, one resource after the other.
Releases == <<"input_context", "input_method", "glx_window", "glx_context", "window", "display">>
Optional == {"input_context", "input_method"}

Destroy(i) ==
    LET r == Releases[i]
        inUse == {s \in held : r \in NeedsOf(s)} \ (IF r = "display" THEN {"colormap"} ELSE {})
    IN /\ window = <<"destroy", i>>
       /\ wrong' = wrong \cup (IF inUse # {} \/ r \notin held \cup Optional THEN {r} ELSE {})
       /\ held' = IF r = "display" THEN Display_guard(held) ELSE held \ {r}
       /\ window' = IF i < Len(Releases) THEN <<"destroy", i + 1>> ELSE <<"gone", 0>>
       /\ UNCHANGED <<unchecked, pending, consoleVars, lines>>

BeginDestroy ==
    /\ window[1] = "returned"
    /\ console \in {"none", "gone"}
    /\ window' = <<"destroy", 1>>
    /\ UNCHANGED <<held, wrong, unchecked, pending, consoleVars, lines>>

-----------------------------------------------------------------------------
(* The console.                                                            *)

observe(c) ==
    /\ console = "none" /\ window[1] = "loop"
    /\ c \notin observers
    /\ observers' = observers \cup {c}
    /\ UNCHANGED <<windowVars, console, stdin, reader, callback_exit, called, lines>>

abandon(c) ==
    /\ console = "gone" /\ window[1] \in {"loop", "returned"}
    /\ c \in observers
    /\ observers' = observers \ {c}
    /\ UNCHANGED <<windowVars, console, stdin, reader, callback_exit, called, lines>>

Console ==
    /\ window[1] = "loop"
    /\ console = "none"
    /\ callback_exit' = "close"
    /\ console' = "running"
    /\ reader' = "poll"
    /\ UNCHANGED <<windowVars, observers, stdin, called, lines>>

\* The console's input: what is typed or written there, a line at a time or not.
TypeSome ==
    /\ reader # "none"
    /\ lines < MaxLines
    /\ stdin = "nothing"
    /\ stdin' = "partial"
    /\ lines' = lines + 1
    /\ UNCHANGED <<windowVars, observers, console, reader, callback_exit, called>>

CompleteLine ==
    /\ stdin = "partial"
    /\ stdin' = "line"
    /\ UNCHANGED <<windowVars, observers, console, reader, callback_exit, called, lines>>

EndInput ==
    /\ reader # "none"
    /\ stdin' = CASE stdin = "nothing" -> "ended" [] stdin = "partial" -> "last" [] OTHER -> stdin
    /\ UNCHANGED <<windowVars, observers, console, reader, callback_exit, called, lines>>

\* poll reports POLLIN, and ~console has not closed its end of the pipe: getline,
\* which waits for the rest of the line without a look at the pipe.
BeginLine ==
    /\ reader = "poll"
    /\ stdin # "nothing"
    /\ console # "joining"
    /\ reader' = "getline"
    /\ UNCHANGED <<windowVars, observers, console, stdin, callback_exit, called, lines>>

\* Callback::call: the number and the types of the arguments must be those of the
\* function, or nothing is called.
Call(c, arguments) == IF arguments = Observed[c] THEN c ELSE NULL

\* parse_params makes each word an argument of the first type that takes all of it;
\* a word of no type is left out.
parse_params(words) == SelectSeq(words, LAMBDA w : w # "unparsed")

\* The arguments begin behind the space after the command.  Without a space that is
\* behind the end, and what lies there is parsed (if reading it does not fault).
Arguments(line) ==
    IF line.words = Unspaced THEN {<<>>} \cup {Observed[c] : c \in Commands} ELSE {parse_params(line.words)}

read_input(line) ==
    /\ reader = "getline"
    /\ stdin \in {"line", "last"}
    /\ \E arguments \in Arguments(line) :
        called' = IF line.command \in observers THEN Call(line.command, arguments) ELSE NULL
    /\ stdin' = IF stdin = "last" THEN "ended" ELSE "nothing"
    /\ reader' = "poll"
    /\ UNCHANGED <<windowVars, observers, console, callback_exit, lines>>

\* getline fails at the end of the input.
EndOfInput ==
    /\ reader = "getline"
    /\ stdin = "ended"
    /\ LET c == close(held, pending)
       IN /\ pending' = c.pending
          /\ wrong' = wrong \cup c.wrong \cup (IF callback_exit = NULL THEN {"callback_exit"} ELSE {})
    /\ reader' = "ended"
    /\ UNCHANGED <<window, held, unchecked, observers, console, stdin, callback_exit, called, lines>>

\* POLLHUP, once ~console has closed its end of the pipe.
Interrupted ==
    /\ reader = "poll"
    /\ console = "joining"
    /\ reader' = "ended"
    /\ UNCHANGED <<windowVars, observers, console, stdin, callback_exit, called, lines>>

DestroyConsole ==
    /\ console = "running"
    /\ window[1] = "returned"
    /\ console' = "joining"
    /\ UNCHANGED <<windowVars, observers, stdin, reader, callback_exit, called, lines>>

JoinConsole ==
    /\ console = "joining"
    /\ reader = "ended"
    /\ console' = "gone"
    /\ callback_exit' = NULL
    /\ UNCHANGED <<windowVars, observers, stdin, reader, called, lines>>

-----------------------------------------------------------------------------
AppConstructor == Acquire \/ Throw \/ CreateGl \/ XOpenIM \/ NoInputMethod \/ NoInputContext \/ Constructed
AppDestructor == BeginDestroy \/ DestroyConsole \/ JoinConsole \/ \E i \in DOMAIN Releases : Destroy(i)
ReaderThread == BeginLine \/ (\E line \in Lines : read_input(line)) \/ EndOfInput \/ Interrupted

AppNext ==
    \/ AppConstructor
    \/ \E e \in Events : Event(e)
    \/ message_loop
    \/ Console
    \/ \E c \in Commands : observe(c) \/ abandon(c)
    \/ TypeSome \/ CompleteLine \/ EndInput
    \/ ReaderThread
    \/ AppDestructor

-----------------------------------------------------------------------------
(* Properties.                                                             *)

(* Whichever step of the window's construction fails with its result       *)
(* looked at, and whenever the program ends, everything is given back, in  *)
(* an order in which nothing is used after what it was made from, and the  *)
(* console never closes a window that is not there (window_x11.cpp,        *)
(* constructor and destructor).  The three results it does not look at are *)
(* used or given back as if they were there, and nothing else is: a        *)
(* context or window of GLX, and the input method, where the program dies. *)
AppReleases == wrong \subseteq unchecked /\ (window[1] = "gone" => held = {})

(* A window that is closed, by the window manager or by the end of the     *)
(* console's input, goes, and the console with it, whose thread may be in  *)
(* poll (console_posix.cpp, ~console).  Not so while the thread is in      *)
(* getline with a part of a line: ~console waits until the rest has come.  *)
AppEnds ==
    ("UnmapNotify" \in ToSet(pending)) ~>
        (window[1] = "gone" \/ [](reader = "getline" /\ stdin = "partial"))

\* Both: the window that is closed is destroyed, and leaves nothing open (window_x11.cpp).
AppEndsClean == []AppReleases /\ AppEnds

=============================================================================
