---------------------------- MODULE PlayerThread ----------------------------
(***************************************************************************)
(* player_thread (ver_thread/src/player.c): the keyboard.                  *)
(***************************************************************************)
EXTENDS ThreadState

(* getch returns a key; without one the thread sleeps and changes nothing. *)
ReadKey(key) ==
  /\ At(Player, "read")
  /\ ~over
  /\ IF key = "p" THEN Go(Player, "pause") /\ UNCHANGED turn
     ELSE /\ ~paused
          /\ turn[Player] > 0
          /\ turn' = [turn EXCEPT ![Player] = @ - 1]
          /\ Go(Player, "lockFrog")
  /\ p' = [p EXCEPT !.key = IF key = "p" THEN "" ELSE key]
  /\ UNCHANGED <<world, orig, status, queue, lock, g, b, m>>

PlayerEnds ==
  /\ At(Player, "read")
  /\ over
  /\ Go(Player, "end")
  /\ UNCHANGED <<world, orig, status, queue, lock, locals, turn, m>>

(* The pause key: game_mutex is kept until the screen shows the pause or,  *)
(* when the game goes on, until a whole frame has been drawn.              *)
TogglePause ==
  /\ At(Player, "pause")
  /\ Lock(GameMutex, Player)
  /\ paused' = ~paused
  /\ Go(Player, IF paused THEN "draw" ELSE "pauseText")
  /\ UNCHANGED <<world, orig, vite, tane, time, over, queue, locals, turn, m>>

Mut_PauseText ==  \* leaves without giving game_mutex back
  /\ At(Player, "pauseText")
  /\ Free(ScreenMutex)
  /\ Go(Player, "read")
  /\ UNCHANGED <<world, orig, status, queue, lock, locals, turn, m>>

PauseText ==
  /\ At(Player, "pauseText")
  /\ Free(ScreenMutex)
  /\ Unlock(GameMutex)
  /\ Go(Player, "read")
  /\ UNCHANGED <<world, orig, status, queue, locals, turn, m>>

PlayerDrawn ==
  /\ lock' = [lock EXCEPT ![ScreenMutex] = Nobody, ![GameMutex] = Nobody]
  /\ Go(Player, "read")
DrawResumed ==
  /\ Draw(Player, p.i, PlayerDrawn)
  /\ p' = [p EXCEPT !.i = NextDrawn(Player, @)]
  /\ UNCHANGED <<world, orig, status, queue, g, b, turn, m>>

(* From here to Publish the thread keeps player.mutex. *)
LockFrog ==
  /\ At(Player, "lockFrog")
  /\ Lock(FrogMutex, Player)
  /\ p' = [p EXCEPT !.wasOn = on # 0]
  /\ Go(Player, CASE p.key = "space" -> "shootLeft"
                  [] p.key = "Q" -> "quit"
                  [] OTHER -> "move")
  /\ UNCHANGED <<world, orig, status, queue, g, b, turn, m>>

ShootLeft ==
  /\ At(Player, "shootLeft")
  /\ CreateBullet(Cell(frog.x - 1, frog.y), -1, FALSE,
                  [pc EXCEPT ![Player] = "shootRight"])
  /\ UNCHANGED <<frog, on, croc, orig, status, queue, lock, g, p, turn, m>>

ShootRight ==
  /\ At(Player, "shootRight")
  /\ CreateBullet(Cell(frog.x + FrogW, frog.y), 1, FALSE,
                  [pc EXCEPT ![Player] = "move"])
  /\ UNCHANGED <<frog, on, croc, orig, status, queue, lock, g, p, turn, m>>

Mut_Quit ==  \* leaves with game_mutex
  /\ At(Player, "quit")
  /\ Lock(GameMutex, Player)
  /\ over' = TRUE
  /\ Go(Player, "move")
  /\ UNCHANGED <<world, orig, vite, tane, time, paused, queue, locals, turn, m>>

Quit ==
  /\ At(Player, "quit")
  /\ Free(GameMutex)
  /\ over' = TRUE
  /\ Go(Player, "move")
  /\ UNCHANGED <<world, orig, vite, tane, time, paused, queue, lock, locals, turn, m>>

Moved(key) ==
  CASE key = "up" /\ frog.y > 0 -> [frog EXCEPT !.y = @ - 1]
    [] key = "down" /\ frog.y < StartRow -> [frog EXCEPT !.y = @ + 1]
    [] key = "left" /\ frog.x > 1 -> [frog EXCEPT !.x = @ - HStep]
    [] key = "right" /\ frog.x < Width - FrogW - 1 ->
         [frog EXCEPT !.x = @ + HStep]
    [] key = "q" -> [x |-> Width \div 2, y |-> 1]
    [] OTHER -> frog

Clamp(f) ==
  [f EXCEPT !.x = IF f.x < 1 THEN 1
                  ELSE IF f.x > Width - FrogW - 1 THEN Width - FrogW - 1
                  ELSE f.x]

(* The move, the borders, and leaving the crocodile. *)
Move ==
  /\ At(Player, "move")
  /\ frog' = Clamp(Moved(p.key))
  /\ on' = IF frog' # frog /\ p.wasOn THEN 0 ELSE on
  /\ Go(Player, "publish")
  /\ UNCHANGED <<croc, slots, orig, status, queue, lock, locals, turn, m>>

Publish ==
  /\ At(Player, "publish")
  /\ Put(FrogMsg(frog))
  /\ Unlock(FrogMutex)
  /\ p' = [p EXCEPT !.key = "", !.wasOn = FALSE]
  /\ Go(Player, "read")
  /\ UNCHANGED <<world, orig, status, g, b, turn, m>>

PlayerStep ==
  \/ PlayerEnds
  \/ TogglePause
  \/ PauseText
  \/ DrawResumed
  \/ LockFrog
  \/ ShootLeft
  \/ ShootRight
  \/ Quit
  \/ Move
  \/ Publish
=============================================================================
