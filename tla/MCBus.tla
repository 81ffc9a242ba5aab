------------------------------- MODULE MCBus -------------------------------
(* Two sensors share the I2C bus; main, which stands for the UI thread and   *)
(* its power tests when it has finished, and the USB terminal the SPI bus of *)
(* the flash.                                                                *)
EXTENDS Bus, TLC

CONSTANTS acc, mag, main, term, i2c1, spi1

MCBusOf == (acc :> i2c1) @@ (mag :> i2c1) @@ (main :> spi1) @@ (term :> spi1)
=============================================================================
