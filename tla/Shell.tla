-------------------------------- MODULE Shell --------------------------------
(***************************************************************************)
(* What is around the server: main() of its two programs, the one with a   *)
(* window and the one on the console, and CoreApplication, which makes the *)
(* window, runs its frames and takes it down.  The chat window's program   *)
(* has the same shell.                                                     *)
(***************************************************************************)

VARIABLES
    program,  \* gui or cli
    main,     \* where main() is: args, init, imgui, dress, loop, unwind, over, crashed
    mWindow,  \* CoreApplication has a window
    imgui     \* ImGui has a context and its backends

shellVars == <<program, main, mWindow, imgui>>

ShellInit ==
    /\ program \in {"gui", "cli"}
    /\ main = "args"
    /\ mWindow = FALSE /\ imgui = FALSE

\* main() goes on to m.
GoTo(m) == main' = m /\ UNCHANGED <<program, mWindow, imgui>>

\* init(): GLFW, the window, GLEW.  Its result is ignored by the constructor.
MakeWindow ==
    /\ main = "init"
    /\ \/ mWindow' = FALSE /\ main' = "dress"
       \/ mWindow' = TRUE /\ main' \in {"imgui", "dress"}
    /\ UNCHANGED <<program, imgui>>

\* initializeImGui(): the context, the application's applyTheme() and
\* initialize(), the backends.
InitializeImGui ==
    /\ main = "imgui"
    /\ imgui' = TRUE /\ main' = "dress"
    /\ UNCHANGED <<program, mWindow>>

\* setTitle() and setWindowIcon() do without a window, the first frame of run()
\* needs it and ImGui both.
Dress ==
    /\ main = "dress"
    /\ GoTo(IF mWindow /\ imgui THEN "loop" ELSE "crashed")

\* ~CoreApplication(), when run() has returned or thrown.
TakeDown ==
    /\ main = "loop"
    /\ main' = "unwind" /\ mWindow' = FALSE /\ imgui' = FALSE
    /\ UNCHANGED program

ShellTypeOK ==
    /\ program \in {"gui", "cli"} /\ mWindow \in BOOLEAN /\ imgui \in BOOLEAN
    /\ main \in {"args", "init", "imgui", "dress", "loop", "unwind", "over", "crashed"}

=============================================================================
